---- MODULE Spec2Model ----
(***************************************************************************)
(* A model of amber_summarize.py: the field accessors, the BER classifier, *)
(* the CSV reader, the interface-listing parser and the row report.        *)
(*                                                                         *)
(* Text is a sequence of one-character strings.  A value of a record (a    *)
(* csv.DictReader row) is [t |-> "str", s |-> text], the Python None       *)
(* ([t |-> "none"]) or a list of texts ([t |-> "list"], the restkey value  *)
(* of a row longer than the header).  A float is a record                  *)
(* [k, neg, m, e]: k = "num" stands for (-1)^neg * m * 10^e with m > 0,    *)
(* k = "zero", "inf", "nan" for the IEEE special values and k = "none"     *)
(* for Python's None.                                                      *)
(***************************************************************************)
EXTENDS Integers, Sequences, FiniteSets, TLC

VARIABLES
    pc,         \* the position of the run under check: "start", then "done"
    row,        \* the record (a csv.DictReader row) handed to the row functions
    verdict,    \* the value classify_link_health returned
    ber_text,   \* the text of a BER column handed to safe_float
    sci,        \* what scientific_str(safe_float(ber_text)) returned or raised
    stream,     \* the bytes of the CSV file read_csv_safely opens
    rows,       \* the list of records read_csv_safely returned
    ip_out,     \* what running `ip -o link` gave: its output, or a failure
    if_map,     \* what get_local_if_map returned
    amber_mac,  \* the MAC_Address text handed to mac_from_amber_hex
    mac_addr,   \* what mac_from_amber_hex returned
    report,     \* what summarize_row wrote, and the exception that ended it
    digest,     \* the text summarize_histogram returned
    fmt_num,    \* the integer handed to format_large_number
    formatted,  \* the text format_large_number returned
    paths,      \* the input files of a run of main, in command-line order
    next_path,  \* the index in paths the loop of main has come to
    builds,     \* how often the run has queried the interface listing
    invoked,    \* the indices of the paths process_file was invoked on, in order
    calls,      \* the calls of summarize_row of the run: path, row, mapping, outcome
    log,        \* the messages of the run, each with the path it is about
    processed_files,    \* main's list of the files processed with data
    created_templates,  \* main's list of the template files
    errors,     \* main's list of the paths that had errors
    kernel_logs, \* main's list of the kernel logs captured
    summary     \* the processing summary main printed

vars ==
    <<pc, row, verdict, ber_text, sci, stream, rows, ip_out, if_map,
      amber_mac, mac_addr, report,
      digest,
      fmt_num, formatted,
      paths, next_path, builds, invoked, calls, log, processed_files,
      created_templates, errors, kernel_logs, summary>>

-----------------------------------------------------------------------------
(* Text helpers: the str methods the program uses.                         *)

Digits == {"0", "1", "2", "3", "4", "5", "6", "7", "8", "9"}

IsSpace(c) == c \in {" ", "\t", "\n", "\r"}

RECURSIVE LStrip(_)
LStrip(s) == IF s # <<>> /\ IsSpace(Head(s)) THEN LStrip(Tail(s)) ELSE s

RECURSIVE RStrip(_)
RStrip(s) ==
    IF s # <<>> /\ IsSpace(s[Len(s)]) THEN RStrip(SubSeq(s, 1, Len(s) - 1)) ELSE s

\* str.strip()
Strip(s) == RStrip(LStrip(s))

\* str.lower() of one character (the letters the modelled texts use)
LowerChar(c) ==
    CASE c = "A" -> "a" [] c = "B" -> "b" [] c = "C" -> "c" [] c = "D" -> "d"
      [] c = "E" -> "e" [] c = "F" -> "f" [] c = "G" -> "g" [] c = "H" -> "h"
      [] c = "I" -> "i" [] c = "K" -> "k" [] c = "L" -> "l" [] c = "N" -> "n"
      [] c = "O" -> "o" [] c = "P" -> "p" [] c = "R" -> "r" [] c = "S" -> "s"
      [] c = "T" -> "t" [] c = "U" -> "u" [] c = "W" -> "w" [] c = "X" -> "x"
      [] c = "Y" -> "y" [] c = "Z" -> "z"
      [] OTHER -> c

UpperChar(c) ==
    CASE c = "a" -> "A" [] c = "b" -> "B" [] c = "c" -> "C" [] c = "d" -> "D"
      [] c = "e" -> "E" [] c = "f" -> "F" [] c = "g" -> "G" [] c = "h" -> "H"
      [] c = "i" -> "I" [] c = "k" -> "K" [] c = "l" -> "L" [] c = "n" -> "N"
      [] c = "o" -> "O" [] c = "p" -> "P" [] c = "r" -> "R" [] c = "s" -> "S"
      [] c = "t" -> "T" [] c = "u" -> "U" [] c = "w" -> "W" [] c = "x" -> "X"
      [] c = "y" -> "Y" [] c = "z" -> "Z"
      [] OTHER -> c

Lower(s) == [i \in 1..Len(s) |-> LowerChar(s[i])]

Upper(s) == [i \in 1..Len(s) |-> UpperChar(s[i])]

\* the index of the first occurrence of character c in s, 0 when there is none
RECURSIVE FindFrom(_, _, _)
FindFrom(s, c, i) ==
    IF i > Len(s) THEN 0 ELSE IF s[i] = c THEN i ELSE FindFrom(s, c, i + 1)

Find(s, c) == FindFrom(s, c, 1)

\* c in s
HasChar(s, c) == \E i \in 1..Len(s) : s[i] = c

AllDigits(s) == \A i \in 1..Len(s) : s[i] \in Digits

DigitVal(c) ==
    CASE c = "0" -> 0 [] c = "1" -> 1 [] c = "2" -> 2 [] c = "3" -> 3
      [] c = "4" -> 4 [] c = "5" -> 5 [] c = "6" -> 6 [] c = "7" -> 7
      [] c = "8" -> 8 [] c = "9" -> 9

\* the number a digit string denotes
RECURSIVE DigitsVal(_)
DigitsVal(s) ==
    IF s = <<>> THEN 0
    ELSE 10 * DigitsVal(SubSeq(s, 1, Len(s) - 1)) + DigitVal(s[Len(s)])

RECURSIVE NDigits(_)
NDigits(n) == IF n < 10 THEN 1 ELSE 1 + NDigits(n \div 10)

RECURSIVE Pow10(_)
Pow10(n) == IF n = 0 THEN 1 ELSE 10 * Pow10(n - 1)

-----------------------------------------------------------------------------
(* Record values.                                                          *)

Str(s) == [t |-> "str", s |-> s, l |-> <<>>]

NoneVal == [t |-> "none", s |-> <<>>, l |-> <<>>]

ListVal(l) == [t |-> "list", s |-> <<>>, l |-> l]

RECURSIVE ReprItems(_)
ReprItems(l) ==
    IF l = <<>> THEN <<>>
    ELSE <<"'">> \o Head(l) \o <<"'">>
         \o (IF Len(l) > 1 THEN <<",", " ">> ELSE <<>>) \o ReprItems(Tail(l))

\* str(v) of a record value
StrOf(v) ==
    CASE v.t = "str" -> v.s
      [] v.t = "none" -> <<"N", "o", "n", "e">>
      [] v.t = "list" -> <<"[">> \o ReprItems(v.l) \o <<"]">>

\* row.get(key, "")
RowGet(r, key) == IF key \in DOMAIN r THEN r[key] ELSE Str(<<>>)

NA == <<"N", "/", "A">>

\* a mutant of safe_get: the value is turned to text without a look at None
safe_get_str(r, key, default) ==
    LET s == Strip(StrOf(RowGet(r, key))) IN IF s # <<>> THEN s ELSE default

safe_get(r, key, default) ==
    LET v == RowGet(r, key) IN
    IF v.t = "none" THEN default
    ELSE LET s == Strip(StrOf(v)) IN IF s # <<>> THEN s ELSE default

-----------------------------------------------------------------------------
(* Floats.                                                                 *)

FNone == [k |-> "none", neg |-> FALSE, m |-> 0, e |-> 0]

FNaN == [k |-> "nan", neg |-> FALSE, m |-> 0, e |-> 0]

FInf(neg) == [k |-> "inf", neg |-> neg, m |-> 0, e |-> 0]

FZero(neg) == [k |-> "zero", neg |-> neg, m |-> 0, e |-> 0]

\* the decimal exponent of the leading digit: floor(log10(|v|)) of a "num"
Order(v) == v.e + NDigits(v.m) - 1

\* the largest and the smallest decimal order a double holds: beyond MaxOrder
\* the parse gives inf, below MinOrder it gives zero
MaxOrder == 308

MinOrder == -324

\* the float a mantissa and an exponent denote, as float() rounds it
MkFloat(neg, m, e) ==
    IF m = 0 THEN FZero(neg)
    ELSE LET v == [k |-> "num", neg |-> neg, m |-> m, e |-> e] IN
         IF Order(v) > MaxOrder THEN FInf(neg)
         ELSE IF Order(v) < MinOrder THEN FZero(neg)
         ELSE IF Order(v) = MinOrder /\ 2 * m < 5 * Pow10(NDigits(m) - 1)
         THEN FZero(neg)   \* below half of the smallest subnormal, 4.94e-324
         ELSE v

\* the exponent part of a float literal: [sign] digits, at least one digit
ExpOk(x) ==
    LET d == IF x # <<>> /\ x[1] \in {"+", "-"} THEN Tail(x) ELSE x
    IN  d # <<>> /\ AllDigits(d)

ExpVal(x) ==
    IF x[1] = "-" THEN 0 - DigitsVal(Tail(x))
    ELSE IF x[1] = "+" THEN DigitsVal(Tail(x))
    ELSE DigitsVal(x)

\* float(text): the parse of Python's float(), [k |-> "none"] where it raises
ParseFloat(text) ==
    LET t    == Strip(text)
        sgn  == t # <<>> /\ t[1] \in {"+", "-"}
        neg  == t # <<>> /\ t[1] = "-"
        u    == IF sgn THEN Tail(t) ELSE t
        lu   == Lower(u)
        ePos == Find(lu, "e")
        mant == IF ePos = 0 THEN u ELSE SubSeq(u, 1, ePos - 1)
        expo == IF ePos = 0 THEN <<>> ELSE SubSeq(u, ePos + 1, Len(u))
        dPos == Find(mant, ".")
        ip   == IF dPos = 0 THEN mant ELSE SubSeq(mant, 1, dPos - 1)
        fp   == IF dPos = 0 THEN <<>> ELSE SubSeq(mant, dPos + 1, Len(mant))
    IN  IF lu = <<"i", "n", "f">> \/ lu = <<"i", "n", "f", "i", "n", "i", "t", "y">>
        THEN FInf(neg)
        ELSE IF lu = <<"n", "a", "n">> THEN FNaN
        ELSE IF /\ AllDigits(ip) /\ AllDigits(fp) /\ Len(ip) + Len(fp) >= 1
                /\ (ePos # 0 => ExpOk(expo))
        THEN MkFloat(neg, DigitsVal(ip \o fp),
                     (IF ePos = 0 THEN 0 ELSE ExpVal(expo)) - Len(fp))
        ELSE FNone

safe_float(val) == ParseFloat(val)

\* v > 10^t as Python compares floats (every comparison with nan is False)
GtPow10(v, t) ==
    CASE v.k = "nan"  -> FALSE
      [] v.k = "inf"  -> ~v.neg
      [] v.k = "zero" -> FALSE
      [] v.k = "num"  ->
            /\ ~v.neg
            /\ \/ Order(v) > t
               \/ Order(v) = t /\ v.m # Pow10(NDigits(v.m) - 1)

\* v <= 10^t as Python compares floats
LePow10(v, t) == v.k # "nan" /\ ~GtPow10(v, t)

\* v < 10^t
LtPow10(v, t) ==
    /\ LePow10(v, t)
    /\ ~(v.k = "num" /\ ~v.neg /\ Order(v) = t /\ v.m = Pow10(NDigits(v.m) - 1))

-----------------------------------------------------------------------------
(* scientific_str                                                          *)

DigitChar(d) ==
    CASE d = 0 -> "0" [] d = 1 -> "1" [] d = 2 -> "2" [] d = 3 -> "3"
      [] d = 4 -> "4" [] d = 5 -> "5" [] d = 6 -> "6" [] d = 7 -> "7"
      [] d = 8 -> "8" [] d = 9 -> "9"

\* str(n) of a natural number
RECURSIVE NatStr(_)
NatStr(n) ==
    IF n < 10 THEN <<DigitChar(n)>> ELSE NatStr(n \div 10) \o <<DigitChar(n % 10)>>

\* a call's outcome: the text returned, or the exception raised
Ret(s) == [raised |-> "", s |-> s]

Raise(exc) == [raised |-> exc, s |-> <<>>]

\* f"{mant:.2f}" of mant = m / 10^(NDigits(m) - 1): the hundredths, rounded
Hundredths(m) ==
    LET nd == NDigits(m) IN
    IF nd <= 3 THEN m * Pow10(3 - nd)
    ELSE (2 * m + Pow10(nd - 3)) \div (2 * Pow10(nd - 3))

\* f"{mant:.2f}e{exp:+d}"
SciText(neg, m, exp) ==
    LET h == Hundredths(m) IN
    (IF neg THEN <<"-">> ELSE <<>>)
    \o NatStr(h \div 100) \o <<".">> \o <<DigitChar((h \div 10) % 10), DigitChar(h % 10)>>
    \o <<"e">> \o (IF exp < 0 THEN <<"-">> \o NatStr(0 - exp) ELSE <<"+">> \o NatStr(exp))

\* a mutant of scientific_str: a parsed zero is rendered like a missing value
scientific_str_zero_as_na(val) ==
    IF val.k = "none" \/ val.k = "zero" THEN Ret(NA)
    ELSE IF val.k = "inf" THEN Raise("OverflowError")
    ELSE IF val.k = "nan" THEN Raise("ValueError")
    ELSE IF Order(val) <= MinOrder THEN Raise("ZeroDivisionError")
    ELSE Ret(SciText(val.neg, val.m, Order(val)))

\* math.floor raises on math.log10 of inf (OverflowError) and of nan
\* (ValueError); 10 ** exp is 0.0 for exp <= -324 and the division raises
scientific_str(val) ==
    IF val.k = "none" THEN Ret(NA)
    ELSE IF val.k = "zero" THEN Ret(<<"0">>)
    ELSE IF val.k = "inf" THEN Raise("OverflowError")
    ELSE IF val.k = "nan" THEN Raise("ValueError")
    ELSE IF Order(val) <= MinOrder THEN Raise("ZeroDivisionError")
    ELSE Ret(SciText(val.neg, val.m, Order(val)))

-----------------------------------------------------------------------------
(* Integers and their formats.  A Python int is a TLA+ integer; the        *)
(* modelled records keep every count below 2 * 10^8.                       *)

\* int(text): [ok |-> FALSE] where Python raises ValueError
ParseInt(text) ==
    LET u == Strip(text)
        sgn == u # <<>> /\ u[1] \in {"+", "-"}
        d == IF sgn THEN Tail(u) ELSE u
    IN  IF d # <<>> /\ AllDigits(d)
        THEN [ok |-> TRUE, n |-> IF u[1] = "-" THEN 0 - DigitsVal(d) ELSE DigitsVal(d)]
        ELSE [ok |-> FALSE, n |-> 0]

\* str(n)
IntStr(n) == IF n < 0 THEN <<"-">> \o NatStr(0 - n) ELSE NatStr(n)

\* the digits of n, zero-padded on the left to w characters
RECURSIVE ZPad(_, _)
ZPad(s, w) == IF Len(s) >= w THEN s ELSE ZPad(<<"0">> \o s, w)

\* str.rjust(w): f"{s:>w}"
RECURSIVE RJust(_, _)
RJust(s, w) == IF Len(s) >= w THEN s ELSE RJust(<<" ">> \o s, w)

\* f"{n:,}" of a natural number
RECURSIVE NatCommas(_)
NatCommas(n) ==
    IF n < 1000 THEN NatStr(n)
    ELSE NatCommas(n \div 1000) \o <<",">> \o ZPad(NatStr(n % 1000), 3)

\* f"{n:,}"
IntCommas(n) == IF n < 0 THEN <<"-">> \o NatCommas(0 - n) ELSE NatCommas(n)

\* num / den rounded to the nearest integer, ties to even (num >= 0, den > 0)
RoundDiv(num, den) ==
    LET q == num \div den
        r == num % den
    IN  IF 2 * r > den THEN q + 1
        ELSE IF 2 * r = den THEN q + (q % 2)
        ELSE q

\* num * 10^k / den rounded to the nearest integer, ties to even, by long
\* division (num >= 0, den > 0)
RECURSIVE ScaledDiv(_, _, _, _)
ScaledDiv(q, r, den, k) ==
    IF k = 0
    THEN IF 2 * r > den THEN q + 1 ELSE IF 2 * r = den THEN q + (q % 2) ELSE q
    ELSE ScaledDiv(10 * q + (10 * r) \div den, (10 * r) % den, den, k - 1)

Scaled(num, den, k) == ScaledDiv(num \div den, num % den, den, k)

\* f"{x:.kf}" of x = scaled / 10^k, scaled >= 0
FixedStr(neg, scaled, k) ==
    (IF neg THEN <<"-">> ELSE <<>>)
    \o NatStr(scaled \div Pow10(k))
    \o (IF k = 0 THEN <<>> ELSE <<".">> \o ZPad(NatStr(scaled % Pow10(k)), k))

\* a mutant of format_large_number: 1000 itself is still written out
format_large_number_late_k(num) ==
    IF num <= 1000 THEN IntStr(num)
    ELSE IF num < 1000000 THEN FixedStr(FALSE, RoundDiv(num, 100), 1) \o <<"K">>
    ELSE IF num < 1000000000 THEN FixedStr(FALSE, RoundDiv(num, 100000), 1) \o <<"M">>
    ELSE FixedStr(FALSE, RoundDiv(num, 100000000), 1) \o <<"B">>

format_large_number(num) ==
    IF num < 1000 THEN IntStr(num)
    ELSE IF num < 1000000 THEN FixedStr(FALSE, RoundDiv(num, 100), 1) \o <<"K">>
    ELSE IF num < 1000000000 THEN FixedStr(FALSE, RoundDiv(num, 100000), 1) \o <<"M">>
    ELSE FixedStr(FALSE, RoundDiv(num, 100000000), 1) \o <<"B">>

-----------------------------------------------------------------------------
(* Floats: comparisons with an integer and the formats the report uses.    *)

\* v > k for an integer k >= 0, as Python compares (nan: False)
GtInt(v, k) ==
    CASE v.k = "nan"  -> FALSE
      [] v.k = "inf"  -> ~v.neg
      [] v.k = "zero" -> FALSE
      [] v.k = "num"  ->
            /\ ~v.neg
            /\ \/ k = 0
               \/ Order(v) > NDigits(k) - 1
               \/ /\ Order(v) = NDigits(k) - 1
                  /\ IF v.e >= 0 THEN v.m * Pow10(v.e) > k
                     ELSE v.m > k * Pow10(0 - v.e)

\* v < k for an integer k > 0
LtInt(v, k) ==
    CASE v.k = "nan"  -> FALSE
      [] v.k = "inf"  -> v.neg
      [] v.k = "zero" -> TRUE
      [] v.k = "num"  ->
            \/ v.neg
            \/ Order(v) < NDigits(k) - 1
            \/ /\ Order(v) = NDigits(k) - 1
               /\ IF v.e >= 0 THEN v.m * Pow10(v.e) < k
                  ELSE v.m < k * Pow10(0 - v.e)

\* bool(v): a float is false exactly when it is zero
Truthy(v) == v.k \in {"num", "inf", "nan"}

\* the mantissa without its trailing zeros, and the exponent that goes with it
RECURSIVE Normal(_)
Normal(v) == IF v.m % 10 = 0 THEN Normal([v EXCEPT !.m = @ \div 10, !.e = @ + 1]) ELSE v

ExpStr(exp) ==
    (IF exp < 0 THEN <<"-">> ELSE <<"+">>)
    \o ZPad(NatStr(IF exp < 0 THEN 0 - exp ELSE exp), 2)

\* f"{v:.2e}"
Fmt2e(v) ==
    CASE v.k = "nan"  -> <<"n", "a", "n">>
      [] v.k = "inf"  -> (IF v.neg THEN <<"-">> ELSE <<>>) \o <<"i", "n", "f">>
      [] v.k = "zero" -> (IF v.neg THEN <<"-">> ELSE <<>>)
                         \o <<"0", ".", "0", "0", "e", "+", "0", "0">>
      [] v.k = "num"  ->
            LET h == Hundredths(v.m)
                carry == h >= 1000
            IN  (IF v.neg THEN <<"-">> ELSE <<>>)
                \o FixedStr(FALSE, IF carry THEN 100 ELSE h, 2)
                \o <<"e">> \o ExpStr(Order(v) + (IF carry THEN 1 ELSE 0))

\* str(v) of a float: the shortest text that reads back as v, which for the
\* modelled values is the text of their decimal digits
FloatStr(v) ==
    CASE v.k = "nan"  -> <<"n", "a", "n">>
      [] v.k = "inf"  -> (IF v.neg THEN <<"-">> ELSE <<>>) \o <<"i", "n", "f">>
      [] v.k = "zero" -> (IF v.neg THEN <<"-">> ELSE <<>>) \o <<"0", ".", "0">>
      [] v.k = "num"  ->
            LET n == Normal(v)
                d == NatStr(n.m)
                o == Order(n)
                sign == IF v.neg THEN <<"-">> ELSE <<>>
            IN  IF o >= 16 \/ o < -4
                THEN sign \o <<d[1]>>
                     \o (IF Len(d) > 1 THEN <<".">> \o Tail(d) ELSE <<>>)
                     \o <<"e">> \o ExpStr(o)
                ELSE IF n.e >= 0
                THEN sign \o d \o [i \in 1..n.e |-> "0"] \o <<".", "0">>
                ELSE IF o >= 0
                THEN sign \o SubSeq(d, 1, o + 1) \o <<".">> \o SubSeq(d, o + 2, Len(d))
                ELSE sign \o <<"0", ".">> \o [i \in 1..(0 - o - 1) |-> "0"] \o d

-----------------------------------------------------------------------------
(* clean_line and read_csv_safely.  A byte is a one-symbol string: "NUL"   *)
(* is the null byte, "xFF" a byte that is no valid UTF-8, and "uFFFD" the  *)
(* replacement character the lossy decoder puts for it.  The modelled      *)
(* streams hold no quote character and no carriage return, so csv.reader   *)
(* stays in its unquoted-field states.                                     *)

\* bytes.replace(b"\x00", b" ")
ReplaceNul(line) == [i \in 1..Len(line) |-> IF line[i] = "NUL" THEN " " ELSE line[i]]

\* bytes.decode("utf-8", errors="replace")
DecodeUtf8(line) == [i \in 1..Len(line) |-> IF line[i] = "xFF" THEN "uFFFD" ELSE line[i]]

\* a mutant of clean_line: the line is decoded without replacing the nulls
clean_line_keep_nul(line) == DecodeUtf8(line)

clean_line(line) == DecodeUtf8(ReplaceNul(line))

\* the lines a binary file iterates over: each ends with its "\n", but for a
\* last line the file does not terminate
RECURSIVE FileLines(_)
FileLines(bytes) ==
    IF bytes = <<>> THEN <<>>
    ELSE LET n == Find(bytes, "\n") IN
         IF n = 0 THEN <<bytes>>
         ELSE <<SubSeq(bytes, 1, n)>> \o FileLines(SubSeq(bytes, n + 1, Len(bytes)))

\* str.split(c) of a text on a one-character separator
RECURSIVE Split(_, _)
Split(s, c) ==
    LET n == Find(s, c) IN
    IF n = 0 THEN <<s>>
    ELSE <<SubSeq(s, 1, n - 1)>> \o Split(SubSeq(s, n + 1, Len(s)), c)

\* csv.reader on one line: the fields between the commas, [] for an empty line
CsvRow(line) ==
    LET body == IF line # <<>> /\ line[Len(line)] = "\n"
                THEN SubSeq(line, 1, Len(line) - 1) ELSE line
    IN  IF body = <<>> THEN <<>> ELSE Split(body, ",")

\* a dict is the sequence of its items in insertion order; the key of an
\* item is a text (Str) or None (NoneVal, the restkey)
DictHas(d, k) == \E i \in 1..Len(d) : d[i].k = k

\* d[k] = v
DictSet(d, k, v) ==
    IF DictHas(d, k)
    THEN [i \in 1..Len(d) |-> IF d[i].k = k THEN [k |-> k, v |-> v] ELSE d[i]]
    ELSE Append(d, [k |-> k, v |-> v])

\* dict(zip(fieldnames, r))
RECURSIVE DictZip(_, _, _)
DictZip(d, fieldnames, r) ==
    IF fieldnames = <<>> \/ r = <<>> THEN d
    ELSE DictZip(DictSet(d, Str(Head(fieldnames)), Str(Head(r))),
                 Tail(fieldnames), Tail(r))

\* d[key] = restval for the field names the row has no value for
RECURSIVE DictRest(_, _)
DictRest(d, names) ==
    IF names = <<>> THEN d
    ELSE DictRest(DictSet(d, Str(Head(names)), NoneVal), Tail(names))

\* csv.DictReader.__next__ on one non-empty row
DictOfRow(fieldnames, r) ==
    LET d  == DictZip(<<>>, fieldnames, r)
        lf == Len(fieldnames)
        lr == Len(r)
    IN  IF lf < lr THEN DictSet(d, NoneVal, ListVal(SubSeq(r, lf + 1, lr)))
        ELSE IF lf > lr THEN DictRest(d, SubSeq(fieldnames, lr + 1, lf))
        ELSE d

\* any(str(v).strip() for v in row.values())
AnyValue(d) == \E i \in 1..Len(d) : Strip(StrOf(d[i].v)) # <<>>

RECURSIVE KeepRows(_, _)
KeepRows(fieldnames, rs) ==
    IF rs = <<>> THEN <<>>
    ELSE IF Head(rs) = <<>> THEN KeepRows(fieldnames, Tail(rs))
    ELSE LET d == DictOfRow(fieldnames, Head(rs)) IN
         (IF AnyValue(d) THEN <<d>> ELSE <<>>) \o KeepRows(fieldnames, Tail(rs))

\* the first row the reader yields is the header, whatever it holds; empty
\* rows after it are skipped by DictReader, rows without a value by the loop
read_csv_safely(bytes) ==
    LET lines == FileLines(bytes)
        cleaned_lines == [i \in 1..Len(lines) |-> clean_line(lines[i])]
        csvrows == [i \in 1..Len(cleaned_lines) |-> CsvRow(cleaned_lines[i])]
    IN  IF csvrows = <<>> THEN <<>>
        ELSE KeepRows(Head(csvrows), Tail(csvrows))

-----------------------------------------------------------------------------
(* get_local_if_map.  A mapping is a function from the MAC text to         *)
(* [ifname, state].                                                        *)

\* sub in s
Contains(s, sub) ==
    \E i \in 1..(Len(s) - Len(sub) + 1) : SubSeq(s, i, i + Len(sub) - 1) = sub

\* str.split(): the maximal runs of non-whitespace characters
RECURSIVE SplitWs(_)
SplitWs(s) ==
    LET u == LStrip(s) IN
    IF u = <<>> THEN <<>>
    ELSE LET ws == { i \in 1..Len(u) : IsSpace(u[i]) }
             n  == IF ws = {} THEN Len(u) + 1
                   ELSE CHOOSE i \in ws : \A j \in ws : i <= j
         IN  <<SubSeq(u, 1, n - 1)>> \o SplitWs(SubSeq(u, n, Len(u)))

\* str.splitlines() of a text whose only line boundary is "\n"
splitlines(s) ==
    IF s = <<>> THEN <<>>
    ELSE IF s[Len(s)] = "\n" THEN Split(SubSeq(s, 1, Len(s) - 1), "\n")
    ELSE Split(s, "\n")

\* tokens.index(x): the first position of x, 0 where Python raises ValueError
TokenIndex(tokens, x) ==
    IF \E i \in 1..Len(tokens) : tokens[i] = x
    THEN CHOOSE i \in 1..Len(tokens) :
             tokens[i] = x /\ \A j \in 1..(i - 1) : tokens[j] # x
    ELSE 0

\* the loop joining the lines split by a backslash continuation: st holds
\* full_lines and current_line
RECURSIVE JoinLines(_, _)
JoinLines(lines, st) ==
    IF lines = <<>> THEN st.full_lines
    ELSE LET line == RStrip(Head(lines)) IN
         IF line # <<>> /\ line[Len(line)] = "\\"
         THEN JoinLines(Tail(lines),
                        [st EXCEPT !.current_line =
                             @ \o SubSeq(line, 1, Len(line) - 1) \o <<" ">>])
         ELSE LET cur == st.current_line \o line IN
              JoinLines(Tail(lines),
                        [full_lines |-> IF Strip(cur) # <<>>
                                        THEN Append(st.full_lines, Strip(cur))
                                        ELSE st.full_lines,
                         current_line |-> <<>>])

S_UP == <<"U", "P">>

S_DOWN == <<"D", "O", "W", "N">>

S_UNKNOWN == <<"U", "N", "K", "N", "O", "W", "N">>

S_LOWER_UP == <<"L", "O", "W", "E", "R", "_", "U", "P">>

S_state == <<"s", "t", "a", "t", "e">>

S_link_ether == <<"l", "i", "n", "k", "/", "e", "t", "h", "e", "r">>

\* the state the flag list between the first "<" and the first ">" gives
FlagState(line) ==
    LET state_part == SubSeq(line, Find(line, "<") + 1, Find(line, ">") - 1)
        parts  == Split(state_part, ",")
        states == { Strip(parts[i]) : i \in 1..Len(parts) }
    IN  IF S_UP \in states \/ S_LOWER_UP \in states THEN S_UP
        ELSE IF S_DOWN \in states THEN S_DOWN
        ELSE S_UNKNOWN

\* a mutant of ExplicitState: the flag-derived state is kept when it is UP
ExplicitState_flags_first(line, current_state) ==
    IF current_state = S_UP THEN current_state
    ELSE IF ~Contains(Lower(line), S_state) THEN current_state
    ELSE LET tokens == SplitWs(line)
             state_idx == TokenIndex(tokens, S_state)
         IN  IF state_idx = 0 \/ state_idx + 1 > Len(tokens) THEN current_state
             ELSE LET explicit_state == Upper(tokens[state_idx + 1]) IN
                  IF explicit_state \in {S_UP, S_DOWN, S_UNKNOWN}
                  THEN explicit_state ELSE current_state

\* the state after the check for an explicit "state TOKEN" in the line
ExplicitState(line, current_state) ==
    IF ~Contains(Lower(line), S_state) THEN current_state
    ELSE LET tokens == SplitWs(line)
             state_idx == TokenIndex(tokens, S_state)
         IN  IF state_idx = 0 \/ state_idx + 1 > Len(tokens) THEN current_state
             ELSE LET explicit_state == Upper(tokens[state_idx + 1]) IN
                  IF explicit_state \in {S_UP, S_DOWN, S_UNKNOWN}
                  THEN explicit_state ELSE current_state

\* current_ifname of a logical line, <<>> where it stays None
IfName(line) ==
    IF HasChar(line, ":") /\ line[1] \in Digits
    THEN Strip(Split(line, ":")[2])
    ELSE <<>>

\* current_state of a logical line
IfState(line) ==
    IF HasChar(line, ":") /\ line[1] \in Digits
    THEN ExplicitState(line,
             IF HasChar(line, "<") /\ HasChar(line, ">")
             THEN FlagState(line) ELSE S_UNKNOWN)
    ELSE S_UNKNOWN

\* a mutant of IfMac: the suffix from the first "/" on is kept
IfMac_no_cut(line) ==
    IF ~Contains(Lower(line), S_link_ether) THEN <<>>
    ELSE LET tokens == SplitWs(line)
             hits == { i \in 1..Len(tokens) :
                         Lower(tokens[i]) = S_link_ether /\ i + 1 <= Len(tokens) }
         IN  IF hits = {} THEN <<>>
             ELSE LET i == CHOOSE h \in hits : \A g \in hits : h <= g
                  IN  Lower(tokens[i + 1])

\* mac of a logical line, <<>> where it stays None or comes out empty
IfMac(line) ==
    IF ~Contains(Lower(line), S_link_ether) THEN <<>>
    ELSE LET tokens == SplitWs(line)
             hits == { i \in 1..Len(tokens) :
                         Lower(tokens[i]) = S_link_ether /\ i + 1 <= Len(tokens) }
         IN  IF hits = {} THEN <<>>
             ELSE LET i == CHOOSE h \in hits : \A g \in hits : h <= g
                      mac == Lower(tokens[i + 1])
                  IN  IF HasChar(mac, "/") THEN Split(mac, "/")[1] ELSE mac

\* a mutant of MapSet: an entry already held for the MAC is kept
MapSet_keep_first(mapping, mac, info) ==
    [ k \in DOMAIN mapping \cup {mac} |->
        IF k \in DOMAIN mapping THEN mapping[k] ELSE info ]

\* mapping[mac] = {"ifname": ..., "state": ...}
MapSet(mapping, mac, info) ==
    [ k \in DOMAIN mapping \cup {mac} |-> IF k = mac THEN info ELSE mapping[k] ]

\* a mutant of ProcessLines: a MAC alone adds an entry
RECURSIVE ProcessLines_mac_alone(_, _)
ProcessLines_mac_alone(full_lines, mapping) ==
    IF full_lines = <<>> THEN mapping
    ELSE LET line == Head(full_lines)
             mac == IfMac(line)
         IN  ProcessLines_mac_alone(Tail(full_lines),
                 IF mac # <<>>
                 THEN MapSet(mapping, mac,
                             [ifname |-> IfName(line), state |-> IfState(line)])
                 ELSE mapping)

\* the loop over the complete lines
RECURSIVE ProcessLines(_, _)
ProcessLines(full_lines, mapping) ==
    IF full_lines = <<>> THEN mapping
    ELSE LET line == Head(full_lines)
             current_ifname == IfName(line)
             mac == IfMac(line)
         IN  ProcessLines(Tail(full_lines),
                 IF current_ifname # <<>> /\ mac # <<>>
                 THEN MapSet(mapping, mac,
                             [ifname |-> current_ifname, state |-> IfState(line)])
                 ELSE mapping)

FullLines(text) ==
    JoinLines(splitlines(text), [full_lines |-> <<>>, current_line |-> <<>>])

\* a call's outcome: the mapping returned, or the exception raised
RetMap(mapping) == [raised |-> "", mapping |-> mapping]

\* a mutant of get_local_if_map: the failure of the command is not caught
get_local_if_map_uncaught(out) ==
    IF ~out.ok THEN [raised |-> "CalledProcessError", mapping |-> <<>>]
    ELSE RetMap(ProcessLines(FullLines(out.text), <<>>))

\* out is what subprocess.check_output gave: a failure returns {}
get_local_if_map(out) ==
    IF ~out.ok THEN RetMap(<<>>)
    ELSE RetMap(ProcessLines(FullLines(out.text), <<>>))

-----------------------------------------------------------------------------
(* mac_from_amber_hex                                                      *)

HexDigits == Digits \cup {"a", "b", "c", "d", "e", "f"}

\* ":".join(s[i:i + 2] for i in range(0, 12, 2))
ColonJoin(s) ==
    <<s[1], s[2], ":", s[3], s[4], ":", s[5], s[6], ":",
      s[7], s[8], ":", s[9], s[10], ":", s[11], s[12]>>

\* a mutant of mac_from_amber_hex: a text longer than 12 digits is cut to
\* its first 12 instead of being refused
mac_from_amber_hex_cut(text) ==
    LET s0 == Lower(Strip(text))
        s  == IF Len(s0) >= 2 /\ SubSeq(s0, 1, 2) = <<"0", "x">>
              THEN SubSeq(s0, 3, Len(s0)) ELSE s0
    IN  IF Len(s) < 12 \/ \E i \in 1..Len(s) : s[i] \notin HexDigits THEN NoneVal
        ELSE Str(ColonJoin(s))

\* the canonical MAC text, or None
mac_from_amber_hex(text) ==
    LET s0 == Lower(Strip(text))
        s  == IF Len(s0) >= 2 /\ SubSeq(s0, 1, 2) = <<"0", "x">>
              THEN SubSeq(s0, 3, Len(s0)) ELSE s0
    IN  IF Len(s) # 12 \/ \E i \in 1..Len(s) : s[i] \notin HexDigits THEN NoneVal
        ELSE Str(ColonJoin(s))

-----------------------------------------------------------------------------
(* classify_link_health                                                    *)

V_Unknown == "Unknown"

V_Healthy == "Healthy"

V_Noisy == "Correctable but somewhat noisy"

V_Marginal == "Potentially marginal link"

V_Intermediate == "Intermediate"

\* a mutant of ClassifyRules: the thresholds compared with < instead of <=
ClassifyRules_strict(raw_ber, eff_ber) ==
    IF raw_ber.k = "none" /\ eff_ber.k = "none" THEN V_Unknown
    ELSE IF /\ (raw_ber.k = "none" \/ LtPow10(raw_ber, -8))
            /\ (eff_ber.k = "none" \/ LtPow10(eff_ber, -12))
    THEN V_Healthy
    ELSE IF /\ raw_ber.k # "none" /\ GtPow10(raw_ber, -8)
            /\ (eff_ber.k = "none" \/ LePow10(eff_ber, -12))
    THEN V_Noisy
    ELSE IF eff_ber.k # "none" /\ GtPow10(eff_ber, -12) THEN V_Marginal
    ELSE V_Intermediate

\* the rule list of classify_link_health on the two parsed values
ClassifyRules(raw_ber, eff_ber) ==
    IF raw_ber.k = "none" /\ eff_ber.k = "none" THEN V_Unknown
    ELSE IF /\ (raw_ber.k = "none" \/ LePow10(raw_ber, -8))
            /\ (eff_ber.k = "none" \/ LePow10(eff_ber, -12))
    THEN V_Healthy
    ELSE IF /\ raw_ber.k # "none" /\ GtPow10(raw_ber, -8)
            /\ (eff_ber.k = "none" \/ LePow10(eff_ber, -12))
    THEN V_Noisy
    ELSE IF eff_ber.k # "none" /\ GtPow10(eff_ber, -12) THEN V_Marginal
    ELSE V_Intermediate

\* a mutant of RuleHolds: rule 3 tests the raw BER alone
RuleHolds_raw_only(n, raw_ber, eff_ber) ==
    CASE n = 1 -> raw_ber.k = "none" /\ eff_ber.k = "none"
      [] n = 2 -> /\ (raw_ber.k = "none" \/ LePow10(raw_ber, -8))
                  /\ (eff_ber.k = "none" \/ LePow10(eff_ber, -12))
      [] n = 3 -> raw_ber.k # "none" /\ GtPow10(raw_ber, -8)
      [] n = 4 -> eff_ber.k # "none" /\ GtPow10(eff_ber, -12)

\* the condition of the n-th rule of classify_link_health (lines 138, 142,
\* 146 and 153)
RuleHolds(n, raw_ber, eff_ber) ==
    CASE n = 1 -> raw_ber.k = "none" /\ eff_ber.k = "none"
      [] n = 2 -> /\ (raw_ber.k = "none" \/ LePow10(raw_ber, -8))
                  /\ (eff_ber.k = "none" \/ LePow10(eff_ber, -12))
      [] n = 3 -> /\ raw_ber.k # "none" /\ GtPow10(raw_ber, -8)
                  /\ (eff_ber.k = "none" \/ LePow10(eff_ber, -12))
      [] n = 4 -> eff_ber.k # "none" /\ GtPow10(eff_ber, -12)

\* the verdict the n-th rule returns
RuleVerdict(n) ==
    CASE n = 1 -> V_Unknown [] n = 2 -> V_Healthy [] n = 3 -> V_Noisy [] n = 4 -> V_Marginal

\* a mutant of classify_link_health: a link-down count in the record turns
\* the verdict to marginal
classify_link_health_link_down(r) ==
    IF safe_get(r, "Link_Down", <<>>) \notin {<<>>, <<"0">>} THEN V_Marginal
    ELSE ClassifyRules(safe_float(safe_get(r, "Raw_BER", <<>>)),
                       safe_float(safe_get(r, "Effective_BER", <<>>)))

classify_link_health(r) ==
    LET raw_ber_str == safe_get(r, "Raw_BER", <<>>)
        eff_ber_str == safe_get(r, "Effective_BER", <<>>)
    IN  ClassifyRules(safe_float(raw_ber_str), safe_float(eff_ber_str))

-----------------------------------------------------------------------------
(* summarize_histogram and summarize_row.  The report is the sequence of   *)
(* the lines handed to log_msg; a line is its fixed label (tag) and the    *)
(* text the record contributes to it, from the first to the last value     *)
(* formatted into it.  A call's outcome is the lines written and the       *)
(* exception that ended it ("" where it returned).                         *)

L(tag, text) == [tag |-> tag, text |-> text]

Report(raised, lines) == [raised |-> raised, lines |-> lines]

HistKeys ==
    << "hist0", "hist1", "hist2", "hist3", "hist4", "hist5", "hist6", "hist7",
       "hist8", "hist9", "hist10", "hist11", "hist12", "hist13", "hist14",
       "hist15" >>

\* the loop over range(16): int(v), and 0 where int raises
HistCounts(r) ==
    [ i \in 1..16 |->
        LET p == ParseInt(safe_get(r, HistKeys[i], <<"0">>))
        IN  IF p.ok THEN p.n ELSE 0 ]

RECURSIVE Sum(_)
Sum(s) == IF s = <<>> THEN 0 ELSE Head(s) + Sum(Tail(s))

\* sep.join(texts)
RECURSIVE Join(_, _)
Join(texts, sep) ==
    IF texts = <<>> THEN <<>>
    ELSE IF Len(texts) = 1 THEN Head(texts)
    ELSE Head(texts) \o sep \o Join(Tail(texts), sep)

Max(S) == CHOOSE x \in S : \A y \in S : y <= x

S_NoHist == <<"N", "o", " ", "F", "E", "C", " ", "h", "i", "s", "t", "o", "g", "r", "a", "m", " ", "d", "a", "t", "a", " ", "(", "a", "l", "l", " ", "b", "i", "n", "s", " ", "a", "r", "e", " ", "z", "e", "r", "o", ")", ".">>

\* the digest summarize_histogram returns for counts with a positive bin
HistDigest(counts, total, max_bin) ==
    <<"T", "o", "t", "a", "l", " ", "c", "o", "r", "r", "e", "c", "t", "i", "o", "n", "s", ":", " ">> \o format_large_number(total)
    \o <<" ", "(">> \o IntCommas(total) \o <<")", " ", "a", "c", "r", "o", "s", "s", " ", "1", "6", " ", "b", "i", "n", "s", ".", " ", "F", "i", "r", "s", "t", " ", "b", "i", "n", "s", ":", " ", "[">>
    \o Join([i \in 1..4 |-> format_large_number(counts[i])], <<",", " ">>)
    \o <<",", " ", ".", ".", ".", "]", ".", " ", "H", "i", "g", "h", "e", "s", "t", " ", "n", "o", "n", "z", "e", "r", "o", " ", "b", "i", "n", " ", "i", "n", "d", "e", "x", ":", " ">> \o NatStr(max_bin) \o <<".">>

\* a mutant of summarize_histogram: the highest bin of all stands for the
\* highest bin with a count
summarize_histogram_last_bin(r) ==
    LET counts == HistCounts(r)
        total == Sum(counts)
    IN  IF total = 0 THEN S_NoHist ELSE HistDigest(counts, total, 15)

summarize_histogram(r) ==
    LET counts == HistCounts(r)
        total == Sum(counts)
        nonzero_bins == { i \in 0..15 : counts[i + 1] > 0 }
    IN  IF total = 0 \/ nonzero_bins = {} THEN S_NoHist
        ELSE HistDigest(counts, total, Max(nonzero_bins))

\* the text of a verdict, by its head: the words before its colon
VerdictText(v) ==
    CASE v = V_Unknown      -> <<"U", "n", "k", "n", "o", "w", "n">>
      [] v = V_Healthy      -> <<"H", "e", "a", "l", "t", "h", "y">>
      [] v = V_Noisy        -> <<"C", "o", "r", "r", "e", "c", "t", "a", "b", "l", "e", " ", "b", "u", "t", " ", "s", "o", "m", "e", "w", "h", "a", "t", " ", "n", "o", "i", "s", "y">>
      [] v = V_Marginal     -> <<"P", "o", "t", "e", "n", "t", "i", "a", "l", "l", "y", " ", "m", "a", "r", "g", "i", "n", "a", "l", " ", "l", "i", "n", "k">>
      [] v = V_Intermediate -> <<"I", "n", "t", "e", "r", "m", "e", "d", "i", "a", "t", "e">>

\* a mutant of HostInfo: any entry of the mapping serves a parsed MAC
HostInfo_any(m, ifm) ==
    IF m # NA /\ DOMAIN ifm # {}
    THEN ifm[CHOOSE k \in DOMAIN ifm : TRUE]
    ELSE [ifname |-> NA, state |-> NA]

\* if_map.get(mac_addr.lower()), where the MAC was parsed
HostInfo(m, ifm) ==
    IF m # NA /\ Lower(m) \in DOMAIN ifm
    THEN ifm[Lower(m)]
    ELSE [ifname |-> NA, state |-> NA]

\* lines 292-297
HeaderLines(filename, idx) ==
    << L("=", <<>>), L("amBER Link Health Report", <<>>), L("Generated", <<>>),
       L("File", filename), L("Row", NatStr(idx)), L("=", <<>>) >>

\* lines 300-330
LinkLines(r, ifm) ==
    LET mac_hex == safe_get(r, "MAC_Address", NA)
        parsed == mac_from_amber_hex(mac_hex)
        m == IF parsed = NoneVal THEN NA ELSE parsed.s
        info == HostInfo(m, ifm)
    IN  << L("[Link / Protocol]", <<>>),
           L("Port", safe_get(r, "Port_Number", NA)),
           L("MAC Address (amBER)", mac_hex),
           L("MAC Address (parsed)", m),
           L("Host interface (if found)",
             info.ifname \o <<" ", "(", "s", "t", "a", "t", "e", "=">> \o info.state),
           L("Protocol", safe_get(r, "Protocol", NA)),
           L("Speed [Gb/s]", safe_get(r, "Speed_[Gb/s]", NA)),
           L("Active FEC", safe_get(r, "Active_FEC", NA)),
           L("Link Down Count", safe_get(r, "Link_Down", NA)),
           L("Link Down (GB host / line)",
             safe_get(r, "Link_Down_GB_host", NA) \o <<" ", "/", " ">>
             \o safe_get(r, "Link_Down_GB_line", NA)),
           L("Time since last clear [min]",
             safe_get(r, "Time_since_last_clear_[Min]", NA)) >>

\* a mutant of Percentage: the share of the total, not times 100
Percentage_share(count, total) ==
    RJust(FixedStr(count < 0, Scaled(IF count < 0 THEN 0 - count ELSE count,
                                    total, 2), 2), 5)

\* f"{percentage:5.2f}" of count / total_corrections * 100, total > 0
Percentage(count, total) ==
    RJust(FixedStr(count < 0, Scaled(IF count < 0 THEN 0 - count ELSE count,
                                    total, 4), 2), 5)

\* lines 357-375
HistLines(r) ==
    LET hist_counts == HistCounts(r)
        total_corrections == Sum(hist_counts)
    IN  << L("[Detailed FEC Histogram (all 16 bins)]", <<>>) >>
        \o (IF total_corrections > 0
            THEN [ i \in 1..16 |->
                     L("Bin",
                       RJust(NatStr(i - 1), 2) \o <<":", " ">>
                       \o RJust(format_large_number(hist_counts[i]), 8)
                       \o <<" ", "(">> \o RJust(IntCommas(hist_counts[i]), 15)
                       \o <<")", " ", "-", " ">>
                       \o Percentage(hist_counts[i], total_corrections)) ]
            ELSE << L("All bins are zero (no FEC corrections)", <<>>) >>)

\* lines 377-383
SnrLines(r) ==
    LET snr_media == << safe_get(r, "snr_media_lane0", NA), safe_get(r, "snr_media_lane1", NA),
                        safe_get(r, "snr_media_lane2", NA), safe_get(r, "snr_media_lane3", NA) >>
        snr_host  == << safe_get(r, "snr_host_lane0", NA), safe_get(r, "snr_host_lane1", NA),
                        safe_get(r, "snr_host_lane2", NA), safe_get(r, "snr_host_lane3", NA) >>
    IN  << L("[SNR (if available)]", <<>>),
           L("Media lanes 0-3", Join(snr_media, <<",", " ">>)),
           L("Host  lanes 0-3", Join(snr_host, <<",", " ">>)) >>

\* lines 385-406
CableLines(r) ==
    LET cable_vendor == safe_get(r, "cable_vendor", NA)
        vendor_name == safe_get(r, "vendor_name", NA)
        vendor_display == IF cable_vendor # NA THEN cable_vendor ELSE vendor_name
    IN  << L("[Cable / Module]", <<>>),
           L("Cable PN", safe_get(r, "Cable_PN", NA)),
           L("Cable SN", safe_get(r, "Cable_SN", NA)),
           L("Cable technology", safe_get(r, "cable_technology", NA)),
           L("Cable type", safe_get(r, "cable_type", NA)),
           L("Vendor", vendor_display),
           L("Length", safe_get(r, "cable_length", NA)),
           L("Module temperature", safe_get(r, "Module_Temperature", NA)),
           L("Module voltage", safe_get(r, "Module_Voltage", NA)) >>

\* lines 408-422
EventLines(r) ==
    << L("[Link Events / Recovery]", <<>>),
       L("Successful recovery events", safe_get(r, "successful_recovery_events", NA)),
       L("Total successful recoveries", safe_get(r, "total_successful_recovery_events", NA)),
       L("Unintentional link-downs", safe_get(r, "unintentional_link_down_events", NA)),
       L("Intentional link-downs", safe_get(r, "intentional_link_down_events", NA)),
       L("Last down blame", safe_get(r, "down_blame", NA)),
       L("Last local reason opcode", safe_get(r, "local_reason_opcode", NA)) >>

\* lines 343-355 up to the first call of scientific_str that raises
BerLines(r) ==
    LET raw_ber_str == safe_get(r, "Raw_BER", NA)
        eff_ber_str == safe_get(r, "Effective_BER", NA)
        sr == scientific_str(safe_float(raw_ber_str))
        se == scientific_str(safe_float(eff_ber_str))
        lanes == << safe_get(r, "Raw_BER_lane0", NA), safe_get(r, "Raw_BER_lane1", NA),
                    safe_get(r, "Raw_BER_lane2", NA), safe_get(r, "Raw_BER_lane3", NA) >>
        l1 == << L("[BER / FEC Metrics]", <<>>),
                 L("Raw BER lanes 0-3", Join(lanes, <<",", " ">>)) >>
        l2 == << L("Raw BER (aggregate)", raw_ber_str \o <<" ", "(">> \o sr.s) >>
        l3 == << L("Effective BER", eff_ber_str \o <<" ", "(">> \o se.s),
                 L("FEC Histogram summary", summarize_histogram(r)) >>
    IN  IF sr.raised # "" THEN Report(sr.raised, l1)
        ELSE IF se.raised # "" THEN Report(se.raised, l1 \o l2)
        ELSE Report("", l1 \o l2 \o l3)

\* lines 424-451, reached when both BER values have a scientific text
VerdictLines(r, ifm) ==
    LET port == safe_get(r, "Port_Number", NA)
        parsed == mac_from_amber_hex(safe_get(r, "MAC_Address", NA))
        m == IF parsed = NoneVal THEN NA ELSE parsed.s
        info == HostInfo(m, ifm)
        speed_gbps == safe_get(r, "Speed_[Gb/s]", NA)
        link_down == safe_get(r, "Link_Down", NA)
        sr == scientific_str(safe_float(safe_get(r, "Raw_BER", NA))).s
        se == scientific_str(safe_float(safe_get(r, "Effective_BER", NA))).s
        v == VerdictText(classify_link_health(r))
    IN  << L("=", <<>>), L("[SUMMARY / VERDICT]", <<>>), L("=", <<>>),
           L("Status", v),
           L("", <<>>),
           L("Quick Reference:", <<>>),
           L("* Port", port),
           L("* Interface", info.ifname \o <<" ", "(">> \o info.state),
           L("* Speed", speed_gbps),
           L("* Raw BER", sr),
           L("* Effective BER", se),
           L("* Link Downs", link_down),
           L("", <<>>),
           L("[Grep-Friendly Headline]", <<>>),
           L("PORT=",
             port \o <<" ", "I", "F", "=">> \o info.ifname \o <<" ", "I", "F", "_", "S", "T", "A", "T", "E", "=">> \o info.state
             \o <<" ", "M", "A", "C", "=">> \o m \o <<" ", "S", "P", "E", "E", "D", "=">> \o speed_gbps
             \o <<"G", " ", "L", "I", "N", "K", "_", "D", "O", "W", "N", "S", "=">> \o link_down \o <<" ", "R", "A", "W", "_", "B", "E", "R", "=">> \o sr
             \o <<" ", "E", "F", "F", "_", "B", "E", "R", "=">> \o se \o <<" ", "V", "E", "R", "D", "I", "C", "T", "=", "'">> \o v) >>

\* total_corrections / time_min overflows a float: the quotient is inf
RateOverflows(total, v) ==
    v.k = "num" /\ (NDigits(total) - 1) - Order(v) > MaxOrder

\* total_corrections / (time_min * per) as a fraction; time_min > 0 and the
\* quotient is finite.  The modelled records keep the minutes to at most
\* one decimal.
RateNum(total, v) ==
    IF v.k = "inf" \/ Order(v) > 9 THEN 0
    ELSE IF v.e < 0 THEN total * Pow10(0 - v.e) ELSE total

RateDen(v, per) ==
    IF v.k = "inf" \/ Order(v) > 9 THEN 1
    ELSE IF v.e < 0 THEN v.m * per ELSE v.m * Pow10(v.e) * per

\* f"{format_large_number(int(x))}/sec ({x:,.0f}" for x = num / den
RateText(num, den, unit) ==
    format_large_number(num \div den) \o <<"/">> \o unit \o <<" ", "(">>
    \o NatCommas(RoundDiv(num, den))

\* lines 457-463: the lines, or the OverflowError of int(inf)
RateLines(r) ==
    LET time_min == safe_float(safe_get(r, "Time_since_last_clear_[Min]", NA))
        total_corrections == Sum(HistCounts(r))
    IN  IF Truthy(time_min) /\ GtInt(time_min, 0) /\ total_corrections > 0
        THEN IF RateOverflows(total_corrections, time_min)
             THEN Report("OverflowError", <<>>)
             ELSE Report("",
                    << L("FEC Correction Rate /sec",
                         RateText(RateNum(total_corrections, time_min),
                                  RateDen(time_min, 60), <<"s", "e", "c">>)),
                       L("FEC Correction Rate /min",
                         RateText(RateNum(total_corrections, time_min),
                                  RateDen(time_min, 1), <<"m", "i", "n">>)) >>)
        ELSE Report("", <<>>)

\* down / (time_min * 60) overflows a float: the quotient is inf
UptimeOverflows(v, down) ==
    /\ v.k = "num" /\ down # 0
    /\ (NDigits(IF down < 0 THEN 0 - down ELSE down) - 1) - (Order(v) + 1) > MaxOrder

\* f"{uptime_percentage:.4f}" of ((time_min * 60 - down) / (time_min * 60)) * 100,
\* time_min > 0
UptimeText(v, down) ==
    IF v.k = "inf" THEN <<"n", "a", "n">>
    ELSE IF UptimeOverflows(v, down)
    THEN (IF down > 0 THEN <<"-">> ELSE <<>>) \o <<"i", "n", "f">>
    ELSE IF down = 0 THEN FixedStr(FALSE, 1000000, 4)
    ELSE LET secs == IF v.e < 0 THEN v.m * 60 ELSE v.m * Pow10(v.e) * 60
             d == IF v.e < 0 THEN down * Pow10(0 - v.e) ELSE down
             up == secs - d
         IN  FixedStr(up < 0, Scaled(IF up < 0 THEN 0 - up ELSE up, secs, 6), 4)

\* lines 465-475
UptimeLines(r) ==
    LET link_down == safe_get(r, "Link_Down", NA)
        time_min == safe_float(safe_get(r, "Time_since_last_clear_[Min]", NA))
        down_count == ParseInt(link_down)
    IN  IF link_down # NA /\ Truthy(time_min) /\ down_count.ok /\ GtInt(time_min, 0)
        THEN << L("Estimated Uptime",
                  UptimeText(time_min, down_count.n) \o <<"%", " ", "(", "b", "a", "s", "e", "d", " ", "o", "n", " ">>
                  \o IntStr(down_count.n)) >>
        ELSE <<>>

\* a mutant of BerAnalysisLines: the effective-BER block is entered for
\* every effective BER that parsed
BerAnalysisLines_every_eff(r) ==
    LET raw_ber_val == safe_float(safe_get(r, "Raw_BER", NA))
        eff_ber_val == safe_float(safe_get(r, "Effective_BER", NA))
    IN  (IF raw_ber_val # FNone
         THEN << L("Raw BER Analysis", Fmt2e(raw_ber_val)),
                 IF GtPow10(raw_ber_val, -6)
                 THEN L("WARNING: Very high raw BER - link may be unstable", <<>>)
                 ELSE IF GtPow10(raw_ber_val, -8)
                 THEN L("CAUTION: Elevated raw BER - monitor closely", <<>>)
                 ELSE L("Raw BER is within acceptable range", <<>>) >>
         ELSE <<>>)
        \o (IF eff_ber_val # FNone
            THEN << L("Effective BER Analysis", Fmt2e(eff_ber_val)),
                    IF GtPow10(eff_ber_val, -12)
                    THEN L("WARNING: Non-negligible effective BER detected", <<>>)
                    ELSE L("Effective BER is excellent", <<>>) >>
            ELSE <<>>)

\* lines 477-492
BerAnalysisLines(r) ==
    LET raw_ber_val == safe_float(safe_get(r, "Raw_BER", NA))
        eff_ber_val == safe_float(safe_get(r, "Effective_BER", NA))
    IN  (IF raw_ber_val # FNone
         THEN << L("Raw BER Analysis", Fmt2e(raw_ber_val)),
                 IF GtPow10(raw_ber_val, -6)
                 THEN L("WARNING: Very high raw BER - link may be unstable", <<>>)
                 ELSE IF GtPow10(raw_ber_val, -8)
                 THEN L("CAUTION: Elevated raw BER - monitor closely", <<>>)
                 ELSE L("Raw BER is within acceptable range", <<>>) >>
         ELSE <<>>)
        \o (IF eff_ber_val # FNone /\ LtPow10(eff_ber_val, -200)
            THEN << L("Effective BER Analysis", Fmt2e(eff_ber_val)),
                    IF GtPow10(eff_ber_val, -12)
                    THEN L("WARNING: Non-negligible effective BER detected", <<>>)
                    ELSE L("Effective BER is excellent", <<>>) >>
            ELSE <<>>)

\* lines 494-518; float() raising ends a block without a line
ModuleLines(r) ==
    LET module_temp == safe_get(r, "Module_Temperature", NA)
        module_vcc == safe_get(r, "Module_Voltage", NA)
        temp == ParseFloat(module_temp)
        voltage == ParseFloat(module_vcc)
    IN  (IF module_temp # NA /\ temp # FNone
         THEN << L("Module Temperature", FloatStr(temp)),
                 IF GtInt(temp, 70)
                 THEN L("WARNING: High temperature - may affect performance", <<>>)
                 ELSE IF GtInt(temp, 60)
                 THEN L("CAUTION: Elevated temperature - monitor", <<>>)
                 ELSE L("Temperature is within normal range", <<>>) >>
         ELSE <<>>)
        \o (IF module_vcc # NA /\ voltage # FNone
            THEN << L("Module Voltage", FloatStr(voltage)),
                    IF LtInt(voltage, 2970) \/ GtInt(voltage, 3630)
                    THEN L("WARNING: Voltage outside typical range (2.97V - 3.63V)", <<>>)
                    ELSE L("Voltage is within normal range", <<>>) >>
            ELSE <<>>)

\* field_categories, lines 528-540
field_categories ==
    << [name |-> "[Port & Protocol]",
        fields |-> <<"Port_Number", "MAC_Address", "Protocol", "Speed_[Gb/s]", "Active_FEC">>],
       [name |-> "[Link Status]",
        fields |-> <<"Link_Down", "Link_Down_GB_host", "Link_Down_GB_line",
                     "Time_since_last_clear_[Min]">>],
       [name |-> "[BER Metrics]",
        fields |-> <<"Raw_BER", "Raw_BER_lane0", "Raw_BER_lane1", "Raw_BER_lane2",
                     "Raw_BER_lane3", "Effective_BER">>],
       [name |-> "[FEC Histogram]", fields |-> HistKeys],
       [name |-> "[SNR]",
        fields |-> <<"snr_media_lane0", "snr_media_lane1", "snr_media_lane2",
                     "snr_media_lane3", "snr_host_lane0", "snr_host_lane1",
                     "snr_host_lane2", "snr_host_lane3">>],
       [name |-> "[Cable/Module]",
        fields |-> <<"Cable_PN", "Cable_SN", "cable_technology", "cable_type",
                     "cable_vendor", "cable_length", "vendor_name",
                     "Module_Temperature", "Module_Voltage">>],
       [name |-> "[Link Events]",
        fields |-> <<"successful_recovery_events", "total_successful_recovery_events",
                     "unintentional_link_down_events", "intentional_link_down_events",
                     "local_reason_opcode", "down_blame">>] >>

CategoryFields ==
    UNION { { field_categories[c].fields[i] : i \in 1..Len(field_categories[c].fields) }
            : c \in 1..Len(field_categories) }

\* the key None of a record, under which csv.DictReader keeps the values a
\* row has beyond the header; no column has this name
RestKey == "<None>"

\* the columns outside the categories that the modelled records can hold, in
\* the order sorted() gives them (by code point)
ColumnOrder == <<"Device", "Zeta", "alpha">>

\* the lines of the fields of a record that have a value, in the given order
RECURSIVE FieldLines(_, _)
FieldLines(r, fields) ==
    IF fields = <<>> THEN <<>>
    ELSE LET field == Head(fields)
             value == safe_get(r, field, <<>>)
         IN  (IF field \in DOMAIN r /\ value # NA /\ Strip(value) # <<>>
              THEN << L(field, value) >> ELSE <<>>)
             \o FieldLines(r, Tail(fields))

\* lines 542-556
RECURSIVE CategoryLines(_, _)
CategoryLines(r, cats) ==
    IF cats = <<>> THEN <<>>
    ELSE LET category_fields == FieldLines(r, Head(cats).fields)
         IN  (IF category_fields # <<>>
              THEN << L(Head(cats).name, <<>>) >> \o category_fields \o << L("", <<>>) >>
              ELSE <<>>)
             \o CategoryLines(r, Tail(cats))

\* lines 558-566: sorted() raises on a None among texts, the format of the
\* line on a None alone
OtherLines(r) ==
    LET remaining_fields ==
            { k \in DOMAIN r : /\ k \notin CategoryFields
                               /\ Strip(safe_get(r, k, <<>>)) # <<>>
                               /\ safe_get(r, k, <<>>) # NA }
    IN  IF remaining_fields = {} THEN Report("", <<>>)
        ELSE IF RestKey \in remaining_fields
        THEN Report("TypeError", << L("[Other Fields]", <<>>) >>)
        ELSE Report("",
               << L("[Other Fields]", <<>>) >>
               \o FieldLines(r, SelectSeq(ColumnOrder, LAMBDA k : k \in remaining_fields))
               \o << L("", <<>>) >>)

\* lines 520-525
DumpBanner ==
    << L("=", <<>>), L("[All Available CSV Fields (Raw Data)]", <<>>), L("=", <<>>),
       L("The following fields were found in the CSV (some may be empty):", <<>>),
       L("", <<>>) >>

\* lines 452-455
StatsBanner == << L("=", <<>>), L("[Additional Statistics]", <<>>), L("=", <<>>) >>

\* the lines written up to the first of the three steps that raised: head,
\* the BER lines, mid, the rate lines, rest, the lines of the other fields
\* and the closing empty line
Written(head, ber, mid, rate, rest, other) ==
    IF ber.raised # "" THEN Report(ber.raised, head \o ber.lines)
    ELSE IF rate.raised # "" THEN Report(rate.raised, head \o ber.lines \o mid)
    ELSE IF other.raised # ""
    THEN Report(other.raised,
                head \o ber.lines \o mid \o rate.lines \o rest \o other.lines)
    ELSE Report("", head \o ber.lines \o mid \o rate.lines \o rest \o other.lines
                    \o << L("", <<>>) >>)

\* the lines written for one record, and the exception that ended the call
summarize_row(r, filename, idx, ifm) ==
    Written(HeaderLines(filename, idx) \o LinkLines(r, ifm),
            BerLines(r),
            HistLines(r) \o SnrLines(r) \o CableLines(r) \o EventLines(r)
                \o VerdictLines(r, ifm) \o StatsBanner,
            RateLines(r),
            UptimeLines(r) \o BerAnalysisLines(r) \o ModuleLines(r)
                \o DumpBanner \o CategoryLines(r, field_categories),
            OtherLines(r))

-----------------------------------------------------------------------------
(* The records the classifier is run on: every pair of BER texts, with and *)
(* without other columns.                                                  *)

BerMant ==
    { <<>>, <<"1">>, <<"5">>, <<"0">>, <<"-", "1">>, <<"1", ".", "5">>,
      <<"n", "a", "n">>, <<"x">> }

BerExp ==
    { <<>>, <<"e", "-", "7">>, <<"e", "-", "8">>, <<"e", "-", "9">>,
      <<"E", "-", "1", "0">>, <<"e", "-", "1", "2">>, <<"e", "-", "1", "3">> }

BerTexts == { m \o e : m \in BerMant, e \in BerExp }

\* what a column of a record can hold: "absent" says the record lacks the key
Absent == [t |-> "absent", s |-> <<>>, l |-> <<>>]

BerCells == {Absent, NoneVal, Str(<<" ">>)} \cup { Str(x) : x \in BerTexts }

OtherCells ==
    [ Link_Down : {Absent, Str(<<"3">>)},
      hist0 : {Absent, Str(<<"5">>)},
      Module_Temperature : {Absent, Str(<<"7", "5">>)} ]

\* the record holding the given cells (an "absent" cell is no key at all)
MkRow(cells) ==
    [ k \in { x \in DOMAIN cells : cells[x] # Absent } |-> cells[k] ]

ClassifyRow(raw, eff, o) ==
    MkRow([ Raw_BER |-> raw, Effective_BER |-> eff, Link_Down |-> o.Link_Down,
            hist0 |-> o.hist0, Module_Temperature |-> o.Module_Temperature ])

Cell(r, key) == IF key \in DOMAIN r THEN r[key] ELSE Absent

IdleClassify == row = <<>> /\ verdict = ""

IdleSci == ber_text = <<>> /\ sci = Ret(<<>>)

IdleCsv == stream = <<>> /\ rows = <<>>

IdleIf == ip_out = [ok |-> FALSE, text |-> <<>>] /\ if_map = <<>>

IdleMac == amber_mac = <<>> /\ mac_addr = NoneVal

IdleRow == report = Report("", <<>>)

IdleHist == digest = <<>>

IdleFmt == fmt_num = 0 /\ formatted = <<>>

IdleRun ==
    /\ paths = <<>> /\ next_path = 0 /\ builds = 0 /\ invoked = <<>>
    /\ calls = <<>> /\ log = <<>> /\ processed_files = <<>>
    /\ created_templates = <<>> /\ errors = <<>> /\ kernel_logs = <<>>
    /\ summary = <<>>

InitClassify ==
    /\ pc = "start"
    /\ \E raw \in BerCells, eff \in BerCells, o \in OtherCells :
           row = ClassifyRow(raw, eff, o)
    /\ verdict = ""
    /\ IdleSci /\ IdleCsv /\ IdleIf /\ IdleMac /\ IdleRow /\ IdleHist /\ IdleFmt /\ IdleRun

\* summarize_row's call verdict = classify_link_health(row)
ClassifyLinkHealth ==
    /\ pc = "start"
    /\ verdict' = classify_link_health(row)
    /\ pc' = "done"
    /\ UNCHANGED <<row, ber_text, sci, stream, rows, ip_out, if_map, amber_mac, mac_addr, report, digest, fmt_num, formatted, paths, next_path, builds, invoked, calls, log, processed_files, created_templates, errors, kernel_logs, summary>>

NextClassify == ClassifyLinkHealth

SpecClassify == InitClassify /\ [][NextClassify]_vars

-----------------------------------------------------------------------------
(* Claims about the classifier.                                            *)

RawOf(r) == safe_float(safe_get(r, "Raw_BER", <<>>))

EffOf(r) == safe_float(safe_get(r, "Effective_BER", <<>>))

IsText(r, key, text) == key \in DOMAIN r /\ r[key] = Str(text)

\* C1: the verdict is that of the first matching rule of the ordered list
\* (both absent: Unknown; raw absent or <= 1e-8 and eff absent or <= 1e-12:
\* Healthy; raw > 1e-8 and eff absent or <= 1e-12: CorrectableNoisy;
\* eff > 1e-12: Marginal; otherwise Intermediate), the four examples of the
\* specification come out as stated, and raw = 1e-8, eff = 1e-12 count as low.
C1_FirstMatchingRule ==
    pc = "done" =>
        LET raw == RawOf(row)
            eff == EffOf(row)
            rawAbsent == raw.k = "none"
            effAbsent == eff.k = "none"
            rule1 == rawAbsent /\ effAbsent
            rule2 == (rawAbsent \/ LePow10(raw, -8)) /\ (effAbsent \/ LePow10(eff, -12))
            rule3 == ~rawAbsent /\ GtPow10(raw, -8) /\ (effAbsent \/ LePow10(eff, -12))
            rule4 == ~effAbsent /\ GtPow10(eff, -12)
        IN  /\ rule1 => verdict = V_Unknown
            /\ ~rule1 /\ rule2 => verdict = V_Healthy
            /\ ~rule1 /\ ~rule2 /\ rule3 => verdict = V_Noisy
            /\ ~rule1 /\ ~rule2 /\ ~rule3 /\ rule4 => verdict = V_Marginal
            /\ ~rule1 /\ ~rule2 /\ ~rule3 /\ ~rule4 => verdict = V_Intermediate
            /\ "Raw_BER" \notin DOMAIN row /\ "Effective_BER" \notin DOMAIN row
                   => verdict = V_Unknown
            /\ IsText(row, "Raw_BER", <<"1", "e", "-", "9">>)
                   /\ "Effective_BER" \notin DOMAIN row => verdict = V_Healthy
            /\ IsText(row, "Raw_BER", <<"5", "e", "-", "7">>)
                   /\ "Effective_BER" \notin DOMAIN row => verdict = V_Noisy
            /\ IsText(row, "Raw_BER", <<"1", "e", "-", "9">>)
                   /\ IsText(row, "Effective_BER", <<"5", "E", "-", "1", "0">>)
                   => verdict = V_Marginal
            /\ IsText(row, "Raw_BER", <<"1", "e", "-", "8">>)
                   /\ IsText(row, "Effective_BER", <<"1", "e", "-", "1", "2">>)
                   => verdict = V_Healthy

\* C1 witness: the classifier has run on the boundary pair (1e-8, 1e-12)
C1_Witness ==
    /\ pc = "done"
    /\ IsText(row, "Raw_BER", <<"1", "e", "-", "8">>)
    /\ IsText(row, "Effective_BER", <<"1", "e", "-", "1", "2">>)
    /\ verdict = V_Healthy

\* the records that agree with r on Raw_BER and Effective_BER
SameBer(r) ==
    { ClassifyRow(Cell(r, "Raw_BER"), Cell(r, "Effective_BER"), o) : o \in OtherCells }

\* C2: two records that agree on Raw_BER and Effective_BER get the same
\* verdict, whatever their other columns hold, and classifying a record does
\* not modify it
C2_OnlyBerFields ==
    /\ [](pc = "done" => \A r2 \in SameBer(row) : classify_link_health(r2) = verdict)
    /\ [][row' = row]_vars

\* C2 witness: a classified record with a link-down count, a histogram bin and
\* a module temperature, and a verdict that is not Marginal
C2_Witness ==
    /\ pc = "done"
    /\ {"Link_Down", "hist0", "Module_Temperature"} \subseteq DOMAIN row
    /\ verdict = V_Healthy

-----------------------------------------------------------------------------
(* scientific_str(safe_float(s)) on the texts of a BER column.             *)

SciSign == { <<>>, <<"-">>, <<"+">> }

SciMant ==
    { <<>>, <<"0">>, <<"0", ".", "0">>, <<"1">>, <<"5">>, <<"1", ".", "5">>,
      <<"9", ".", "9", "9", "9">>, <<".">>, <<"i", "n", "f">>, <<"n", "a", "n">>,
      <<"N", "/", "A">> }

SciExp ==
    { <<>>, <<"e", "-", "9">>, <<"E", "-", "1", "2">>, <<"e", "+", "3">>, <<"e">>,
      <<"e", "-", "3", "2", "4">>, <<"e", "-", "4", "0", "0">>,
      <<"e", "4", "0", "0">> }

SciPad == { <<>>, <<" ">> }

SciTexts ==
    { p \o g \o m \o e \o p : p \in SciPad, g \in SciSign, m \in SciMant, e \in SciExp }

InitSci ==
    /\ pc = "start"
    /\ ber_text \in SciTexts
    /\ sci = Ret(<<>>)
    /\ IdleClassify /\ IdleCsv /\ IdleIf /\ IdleMac /\ IdleRow /\ IdleHist /\ IdleFmt /\ IdleRun

\* summarize_row's scientific_str(safe_float(raw_ber_str))
ScientificStr ==
    /\ pc = "start"
    /\ sci' = scientific_str(safe_float(ber_text))
    /\ pc' = "done"
    /\ UNCHANGED <<row, verdict, ber_text, stream, rows, ip_out, if_map, amber_mac, mac_addr, report, digest, fmt_num, formatted, paths, next_path, builds, invoked, calls, log, processed_files, created_templates, errors, kernel_logs, summary>>

NextSci == ScientificStr

SpecSci == InitSci /\ [][NextSci]_vars

\* a mantissa/exponent text: digits "." two digits "e" sign digits
IsSciText(s) ==
    LET u == IF s # <<>> /\ s[1] = "-" THEN Tail(s) ELSE s
        d == Find(u, ".")
        x == Find(u, "e")
    IN  /\ d > 1 /\ x = d + 3 /\ Len(u) >= x + 2
        /\ AllDigits(SubSeq(u, 1, d - 1)) /\ AllDigits(SubSeq(u, d + 1, d + 2))
        /\ u[x + 1] \in {"+", "-"} /\ AllDigits(SubSeq(u, x + 2, Len(u)))

\* C6: scientific_str(safe_float(s)) is "N/A" exactly when s does not parse,
\* "0" exactly when s parses to zero, and a mantissa/exponent text, without
\* raising, for every other value safe_float returns
C6_SciNeverRaises ==
    pc = "done" =>
        LET v == safe_float(ber_text) IN
        /\ (sci.raised = "" /\ sci.s = NA) <=> v.k = "none"
        /\ (sci.raised = "" /\ sci.s = <<"0">>) <=> v.k = "zero"
        /\ v.k \notin {"none", "zero"} => sci.raised = "" /\ IsSciText(sci.s)

\* C6, the part the code keeps: absent and parsed zero are told apart, and
\* every finite non-zero value down to 1e-323 gets a mantissa/exponent text
C6_AbsentZeroFinite ==
    pc = "done" =>
        LET v == safe_float(ber_text) IN
        /\ (sci.raised = "" /\ sci.s = NA) <=> v.k = "none"
        /\ (sci.raised = "" /\ sci.s = <<"0">>) <=> v.k = "zero"
        /\ v.k = "num" /\ Order(v) > MinOrder => sci.raised = "" /\ IsSciText(sci.s)

\* C6 witness: a negative value was rendered through its absolute value
C6_Witness ==
    /\ pc = "done"
    /\ ber_text = <<"-", "1", ".", "5", "e", "-", "9">>
    /\ sci = Ret(<<"-", "1", ".", "5", "0", "e", "-", "9">>)

-----------------------------------------------------------------------------
(* read_csv_safely on files of up to MaxLines lines.                       *)

MaxLines == 3

CsvLines ==
    { <<"a", ",", "b">>, <<"a", ",", "a">>, <<>>, <<" ">>, <<" ", ",", " ">>,
      <<" ", ",", " ", ",", " ">>, <<"x", ",", "y">>, <<"x">>, <<"x", ",", " ">>,
      <<"x", "NUL", ",", "y">>, <<"NUL">>, <<"NUL", ",", "NUL", ",", "NUL">>,
      <<"xFF", ",", "y">>, <<",">> }

RECURSIVE Concat(_)
Concat(ls) == IF ls = <<>> THEN <<>> ELSE Head(ls) \o <<"\n">> \o Concat(Tail(ls))

\* the files: up to MaxLines lines, the last one with or without its newline
CsvStreams ==
    UNION { { Concat(ls) : ls \in [1..n -> CsvLines] } : n \in 0..MaxLines }
    \cup UNION { { SubSeq(Concat(ls), 1, Len(Concat(ls)) - 1) : ls \in [1..n -> CsvLines] }
                 : n \in 1..MaxLines }

InitCsv ==
    /\ pc = "start"
    /\ stream \in CsvStreams
    /\ rows = <<>>
    /\ IdleClassify /\ IdleSci /\ IdleIf /\ IdleMac /\ IdleRow /\ IdleHist /\ IdleFmt /\ IdleRun

\* process_file's rows = read_csv_safely(path)
ReadCsvSafely ==
    /\ pc = "start"
    /\ rows' = read_csv_safely(stream)
    /\ pc' = "done"
    /\ UNCHANGED <<row, verdict, ber_text, sci, stream, ip_out, if_map, amber_mac, mac_addr, report, digest, fmt_num, formatted, paths, next_path, builds, invoked, calls, log, processed_files, created_templates, errors, kernel_logs, summary>>

NextCsv == ReadCsvSafely

SpecCsv == InitCsv /\ [][NextCsv]_vars

\* no key and no value of the dict holds character c
DictFreeOf(d, c) ==
    \A i \in 1..Len(d) :
        /\ ~HasChar(d[i].k.s, c) /\ ~HasChar(d[i].v.s, c)
        /\ \A j \in 1..Len(d[i].v.l) : ~HasChar(d[i].v.l[j], c)

\* C3: the records read from a stream are those read from the same stream
\* with every null byte replaced by a space beforehand, and no null byte
\* reaches the decoded text of a record
C3_NulAsSpace ==
    pc = "done" =>
        /\ rows = read_csv_safely(ReplaceNul(stream))
        /\ \A i \in 1..Len(rows) : DictFreeOf(rows[i], "NUL")

\* C3 witness: a file with a null byte inside a field of a kept row was read
C3_Witness ==
    /\ pc = "done"
    /\ HasChar(stream, "NUL")
    /\ \E i \in 1..Len(rows) : \E j \in 1..Len(rows[i]) :
           rows[i][j].v = Str(<<"x", " ">>)

\* the data rows of the file: what csv.reader yields after the header line
DataRows(bytes) ==
    LET lines == FileLines(ReplaceNul(bytes))
    IN  [i \in 1..(Len(lines) - 1) |-> CsvRow(DecodeUtf8(lines[i + 1]))]

HeaderRow(bytes) == CsvRow(DecodeUtf8(FileLines(ReplaceNul(bytes))[1]))

\* a row whose every field value is empty or whitespace-only
BlankRow(r) == \A i \in 1..Len(r) : Strip(r[i]) = <<>>

RECURSIVE NonBlankDicts(_, _)
NonBlankDicts(fieldnames, rs) ==
    IF rs = <<>> THEN <<>>
    ELSE (IF BlankRow(Head(rs)) THEN <<>> ELSE <<DictOfRow(fieldnames, Head(rs))>>)
         \o NonBlankDicts(fieldnames, Tail(rs))

\* C4: the output is the sequence of the non-blank data rows, in input
\* order: no blank row is kept, whatever its number of fields, and no
\* non-blank row is dropped (stated for the files whose header line names
\* two distinct columns)
C4_BlankRowsDropped ==
    pc = "done" /\ stream # <<>> /\ HeaderRow(stream) = << <<"a">>, <<"b">> >> =>
        /\ rows = NonBlankDicts(HeaderRow(stream), DataRows(stream))
        /\ Len(rows) = Cardinality({ i \in 1..Len(DataRows(stream)) :
                                        ~BlankRow(DataRows(stream)[i]) })

-----------------------------------------------------------------------------
(* get_local_if_map on interface listings: a first entry put together from *)
(* the parts of an `ip -o link` line, well-formed or not, and up to        *)
(* MaxMoreLines further lines.                                             *)

MaxMoreLines == 1

IfIndex == { <<"2", ":">>,
      <<"x", ":">> }

IfNamePart == { <<" ", "e", "t", "h", "0", ":">>,
      <<" ", ":">>,
      <<" ", "e", "t", "h", "0">> }

IfFlags == { <<>>,
      <<" ", "<", "U", "P", ">">>,
      <<" ", "<", "B", "R", "O", "A", "D", "C", "A", "S", "T", ",", "L", "O", "W", "E", "R", "_", "U", "P", ">">>,
      <<" ", "<", "D", "O", "W", "N", ">">>,
      <<" ", "<", "N", "O", "-", "C", "A", "R", "R", "I", "E", "R", ">">>,
      <<" ", "<", "U", "P", ",", "D", "O", "W", "N", ">">> }

IfStatePart == { <<>>,
      <<" ", "s", "t", "a", "t", "e", " ", "U", "P">>,
      <<" ", "s", "t", "a", "t", "e", " ", "D", "O", "W", "N">>,
      <<" ", "s", "t", "a", "t", "e", " ", "D", "O", "R", "M", "A", "N", "T">>,
      <<" ", "s", "t", "a", "t", "e", " ", "u", "p">>,
      <<" ", "s", "t", "a", "t", "e">> }

IfJoin == { <<>>,
      <<" ", "\\", "\n", " ", " ", " ">> }

IfLink == { <<>>,
      <<" ", "l", "i", "n", "k", "/", "e", "t", "h", "e", "r", " ", "a", "a", ":", "b", "b", ":", "c", "c", ":", "d", "d", ":", "e", "e", ":", "0", "f", " ", "b", "r", "d", " ", "f", "f", ":", "f", "f", ":", "f", "f", ":", "f", "f", ":", "f", "f", ":", "f", "f">>,
      <<" ", "l", "i", "n", "k", "/", "e", "t", "h", "e", "r", " ", "A", "A", ":", "B", "B", ":", "C", "C", ":", "D", "D", ":", "E", "E", ":", "0", "F", "/", "6", "4">>,
      <<" ", "l", "i", "n", "k", "/", "e", "t", "h", "e", "r">>,
      <<" ", "l", "i", "n", "k", "/", "e", "t", "h", "e", "r", " ", "z", "z">>,
      <<" ", "l", "i", "n", "k", "/", "e", "t", "h", "e", "r", " ", "/", "x">> }

IfMoreLines == { <<"3", ":", " ", "e", "t", "h", "1", ":", " ", "<", "D", "O", "W", "N", ">", " ", "s", "t", "a", "t", "e", " ", "D", "O", "W", "N", " ", "l", "i", "n", "k", "/", "e", "t", "h", "e", "r", " ", "a", "a", ":", "b", "b", ":", "c", "c", ":", "d", "d", ":", "e", "e", ":", "0", "f">>,
      <<"4", ":", " ", "l", "o", ":", " ", "<", "U", "P", ">", " ", "l", "i", "n", "k", "/", "l", "o", "o", "p", "b", "a", "c", "k", " ", "0", "0", ":", "0", "0", ":", "0", "0", ":", "0", "0", ":", "0", "0", ":", "0", "0">>,
      <<" ", " ", " ", " ", "l", "i", "n", "k", "/", "e", "t", "h", "e", "r", " ", "1", "1", ":", "2", "2", ":", "3", "3", ":", "4", "4", ":", "5", "5", ":", "6", "6">>,
      <<"5", ":", " ", "e", "t", "h", "2", ":", " ", "<", "U", "P", ">", " ", "s", "t", "a", "t", "e", " ", "U", "P", " ", "\\">>,
      <<"6", "x", " ", "e", "t", "h", "3", ":", " ", "<", "U", "P", ">", " ", "l", "i", "n", "k", "/", "e", "t", "h", "e", "r", " ", "6", "6", ":", "5", "5", ":", "4", "4", ":", "3", "3", ":", "2", "2", ":", "1", "1">> }

IfFirstLines ==
    { i \o n \o f \o st \o j \o l :
        i \in IfIndex, n \in IfNamePart, f \in IfFlags, st \in IfStatePart,
        j \in IfJoin, l \in IfLink }

RECURSIVE ConcatLines(_)
ConcatLines(ls) ==
    IF ls = <<>> THEN <<>> ELSE <<"\n">> \o Head(ls) \o ConcatLines(Tail(ls))

IfTexts ==
    { first \o ConcatLines(more) :
        first \in IfFirstLines,
        more \in UNION { [1..n -> IfMoreLines] : n \in 0..MaxMoreLines } }

InitIf ==
    /\ pc = "start"
    /\ \/ ip_out = [ok |-> FALSE, text |-> <<>>]
       \/ \E text \in IfTexts : ip_out = [ok |-> TRUE, text |-> text]
    /\ if_map = <<>>
    /\ IdleClassify /\ IdleSci /\ IdleCsv /\ IdleMac /\ IdleRow /\ IdleHist /\ IdleFmt /\ IdleRun

\* main's if_map = get_local_if_map()
GetLocalIfMap ==
    /\ pc = "start"
    /\ if_map' = get_local_if_map(ip_out)
    /\ pc' = "done"
    /\ UNCHANGED <<row, verdict, ber_text, sci, stream, rows, ip_out, amber_mac, mac_addr, report, digest, fmt_num, formatted, paths, next_path, builds, invoked, calls, log, processed_files, created_templates, errors, kernel_logs, summary>>

NextIf == GetLocalIfMap

SpecIf == InitIf /\ [][NextIf]_vars

\* the physical lines of the output, stripped
PhysLines(text) == LET ls == splitlines(text) IN [i \in 1..Len(ls) |-> Strip(ls[i])]

\* a listing without a parsable entry: no line begins with a numeric index,
\* or the hardware-address marker occurs nowhere
Unparsable(text) ==
    LET ls == PhysLines(text) IN
    \/ \A i \in 1..Len(ls) : ls[i] = <<>> \/ ls[i][1] \notin Digits
    \/ ~Contains(Lower(text), S_link_ether)

\* C7: get_local_if_map never raises, and it returns the empty mapping when
\* the command failed and when its output holds no parsable entry
C7_EmptyOnFailure ==
    pc = "done" =>
        /\ if_map.raised = ""
        /\ ~ip_out.ok => if_map.mapping = <<>>
        /\ ip_out.ok /\ Unparsable(ip_out.text) => if_map.mapping = <<>>

\* C7 witness: a listing with a hardware address on a line that has no
\* numeric index gave the empty mapping
C7_Witness ==
    /\ pc = "done" /\ ip_out.ok
    /\ Contains(ip_out.text, S_link_ether \o <<" ", "a", "a", ":">>)
    /\ ip_out.text[1] = "x"
    /\ if_map = RetMap(<<>>)

\* the token after the first token "state" of a line, <<>> when there is none
StateToken(line) ==
    LET tokens == SplitWs(line)
        at == { i \in 1..Len(tokens) : tokens[i] = S_state }
    IN  IF at = {} THEN <<>>
        ELSE LET i == CHOOSE a \in at : \A b \in at : a <= b IN
             IF i < Len(tokens) THEN tokens[i + 1] ELSE <<>>

\* the flags of the bracketed list of a line
Flags(line) ==
    IF HasChar(line, "<") /\ HasChar(line, ">")
    THEN LET l == Split(SubSeq(line, Find(line, "<") + 1, Find(line, ">") - 1), ",")
         IN  { Strip(l[i]) : i \in 1..Len(l) }
    ELSE {}

FlagDerived(line) ==
    LET flags == Flags(line) IN
    IF S_UP \in flags \/ S_LOWER_UP \in flags THEN S_UP
    ELSE IF S_DOWN \in flags THEN S_DOWN
    ELSE S_UNKNOWN

\* the logical lines that define an entry for MAC m
LinesFor(full_lines, m) ==
    { i \in 1..Len(full_lines) :
        IfName(full_lines[i]) # <<>> /\ IfMac(full_lines[i]) = m }

\* C8 as stated: the explicit token overrides only when it is literally one
\* of UP, DOWN, UNKNOWN; any other token leaves the flag-derived state
C8_ExplicitStateExact ==
    pc = "done" /\ ip_out.ok =>
        LET full_lines == FullLines(ip_out.text) IN
        \A m \in DOMAIN if_map.mapping :
            \E i \in LinesFor(full_lines, m) :
                LET tok == StateToken(full_lines[i]) IN
                if_map.mapping[m].state =
                    IF tok \in {S_UP, S_DOWN, S_UNKNOWN}
                    THEN tok ELSE FlagDerived(full_lines[i])

\* C8 amended: the explicit token is compared in upper case: the state is
\* the upper-cased token when that is one of UP, DOWN, UNKNOWN (overriding
\* the flags), and the flag-derived state otherwise
C8_ExplicitStateUpper ==
    pc = "done" /\ ip_out.ok =>
        LET full_lines == FullLines(ip_out.text) IN
        \A m \in DOMAIN if_map.mapping :
            \E i \in LinesFor(full_lines, m) :
                LET tok == Upper(StateToken(full_lines[i])) IN
                if_map.mapping[m].state =
                    IF tok \in {S_UP, S_DOWN, S_UNKNOWN}
                    THEN tok ELSE FlagDerived(full_lines[i])

\* C8 witness: an entry whose flags say UP and whose explicit state says DOWN
C8_Witness ==
    /\ pc = "done" /\ ip_out.ok
    /\ Len(FullLines(ip_out.text)) = 1
    /\ S_UP \in Flags(ip_out.text) /\ StateToken(ip_out.text) = S_DOWN
    /\ \E m \in DOMAIN if_map.mapping : if_map.mapping[m].state = S_DOWN

LowerHex == Digits \cup {"a", "b", "c", "d", "e", "f"}

\* a canonical lower-case colon-separated 6-byte hex MAC address
IsCanonicalMac(m) ==
    /\ Len(m) = 17
    /\ \A i \in 1..17 : IF i % 3 = 0 THEN m[i] = ":" ELSE m[i] \in LowerHex

\* C9: every entry of the mapping has a canonical MAC as its key, a
\* non-empty interface name and a state among UP, DOWN, UNKNOWN
C9_EntriesWellFormed ==
    pc = "done" =>
        \A m \in DOMAIN if_map.mapping :
            /\ IsCanonicalMac(m)
            /\ if_map.mapping[m].ifname # <<>>
            /\ if_map.mapping[m].state \in {S_UP, S_DOWN, S_UNKNOWN}

-----------------------------------------------------------------------------
(* mac_from_amber_hex on MAC_Address texts.                                *)

MacPad == { <<>>, <<" ">> }

MacPrefix == { <<>>,
      <<"0", "x">>,
      <<"0", "X">>,
      <<"0", "x", "0", "x">>,
      <<"x">> }

MacBody == { <<"9", "c", "6", "3", "c", "0", "0", "3", "5", "8", "d", "0">>,
      <<"9", "C", "6", "3", "C", "0", "0", "3", "5", "8", "D", "0">>,
      <<"9", "c", "6", "3", "c", "0", "0", "3", "5", "8", "d">>,
      <<"9", "c", "6", "3", "c", "0", "0", "3", "5", "8", "d", "0", "0">>,
      <<"9", "c", "6", "3", "c", "0", "0", "3", "5", "8", "d", "g">>,
      <<"9", "c", ":", "6", "3", ":", "c", "0", ":", "0", "3", ":", "5", "8", ":", "d", "0">>,
      <<>>,
      <<"9", "c", "6", "3", "c", "0", " ", "0", "3", "5", "8", "d", "0">>,
      <<"N", "/", "A">>,
      <<"A", "B", "C", "D", "E", "F", "a", "b", "c", "d", "e", "f">>,
      <<"9", "c", "6", "3", "c", "0", "0", "3", "5", "8", "d", "0", "a", "a">> }

MacSuffix == { <<>>,
      <<" ">>,
      <<"z">> }

MacTexts ==
    { p \o x \o b \o q \o p : p \in MacPad, x \in MacPrefix, b \in MacBody,
                               q \in MacSuffix }

InitMac ==
    /\ pc = "start"
    /\ amber_mac \in MacTexts
    /\ mac_addr = NoneVal
    /\ IdleClassify /\ IdleSci /\ IdleCsv /\ IdleIf /\ IdleRow /\ IdleHist /\ IdleFmt /\ IdleRun

\* summarize_row's mac_from_amber_hex(mac_hex)
MacFromAmberHex ==
    /\ pc = "start"
    /\ mac_addr' = mac_from_amber_hex(amber_mac)
    /\ pc' = "done"
    /\ UNCHANGED <<row, verdict, ber_text, sci, stream, rows, ip_out, if_map, amber_mac, report, digest, fmt_num, formatted, paths, next_path, builds, invoked, calls, log, processed_files, created_templates, errors, kernel_logs, summary>>

NextMac == MacFromAmberHex

SpecMac == InitMac /\ [][NextMac]_vars

AnyHex == HexDigits \cup {"A", "B", "C", "D", "E", "F"}

\* the text after trimming and removing one optional 0x / 0X prefix
MacDigits(text) ==
    LET u == Strip(text) IN
    IF Len(u) >= 2 /\ u[1] = "0" /\ u[2] \in {"x", "X"} THEN SubSeq(u, 3, Len(u)) ELSE u

\* C10: a text that, trimmed and without an optional 0x prefix, is exactly 12
\* hex digits gives the six two-digit groups, lower-cased and joined by
\* colons; every other text gives None
C10_TwelveHexDigits ==
    pc = "done" =>
        LET d == MacDigits(amber_mac) IN
        /\ (Len(d) = 12 /\ \A i \in 1..12 : d[i] \in AnyHex)
               => /\ mac_addr.t = "str" /\ Len(mac_addr.s) = 17
                  /\ \A g \in 0..5 :
                         /\ mac_addr.s[3 * g + 1] = LowerChar(d[2 * g + 1])
                         /\ mac_addr.s[3 * g + 2] = LowerChar(d[2 * g + 2])
                         /\ g < 5 => mac_addr.s[3 * g + 3] = ":"
        /\ ~(Len(d) = 12 /\ \A i \in 1..12 : d[i] \in AnyHex) => mac_addr = NoneVal
        /\ amber_mac = <<"0", "x", "9", "c", "6", "3", "c", "0", "0", "3", "5", "8", "d", "0">> => mac_addr = Str(<<"9", "c", ":", "6", "3", ":", "c", "0", ":", "0", "3", ":", "5", "8", ":", "d", "0">>)

\* C10 witness: an upper-case, prefixed, padded 12-digit text was converted
C10_Witness ==
    /\ pc = "done"
    /\ amber_mac = <<" ", "0", "X", "9", "C", "6", "3", "C", "0", "0", "3", "5", "8", "D", "0", " ">>
    /\ mac_addr = Str(<<"9", "c", ":", "6", "3", ":", "c", "0", ":", "0", "3", ":", "5", "8", ":", "d", "0">>)

-----------------------------------------------------------------------------
(* The records summarize_row is run on: two records with every expected    *)
(* column, with any of eight groups of columns missing or empty, and odd    *)
(* records that differ from the first one in a few columns.                *)

\* a record with every expected column
FullRow ==
    "Port_Number" :> Str(<<"1">>) @@
    "MAC_Address" :> Str(<<"0", "x", "a", "a", "b", "b", "c", "c", "d", "d", "e", "e", "0", "f">>) @@
    "Protocol" :> Str(<<"E", "t", "h", "e", "r", "n", "e", "t">>) @@
    "Speed_[Gb/s]" :> Str(<<"4", "0", "0">>) @@
    "Active_FEC" :> Str(<<"R", "S">>) @@
    "Link_Down" :> Str(<<"3">>) @@
    "Link_Down_GB_host" :> Str(<<"0">>) @@
    "Link_Down_GB_line" :> Str(<<"2">>) @@
    "Time_since_last_clear_[Min]" :> Str(<<"1", "0">>) @@
    "Raw_BER" :> Str(<<"5", "e", "-", "7">>) @@
    "Raw_BER_lane0" :> Str(<<"1", "e", "-", "7">>) @@
    "Raw_BER_lane1" :> Str(<<"2", "e", "-", "7">>) @@
    "Raw_BER_lane2" :> Str(<<"3", "e", "-", "7">>) @@
    "Raw_BER_lane3" :> Str(<<"4", "e", "-", "7">>) @@
    "Effective_BER" :> Str(<<"1", ".", "5", "e", "-", "1", "3">>) @@
    "hist0" :> Str(<<"1", "5", "0", "0">>) @@
    "hist1" :> Str(<<"5">>) @@
    "snr_media_lane0" :> Str(<<"2", "0">>) @@
    "snr_media_lane1" :> Str(<<"2", "1">>) @@
    "snr_media_lane2" :> Str(<<"2", "2">>) @@
    "snr_media_lane3" :> Str(<<"2", "3">>) @@
    "snr_host_lane0" :> Str(<<"3", "0">>) @@
    "snr_host_lane1" :> Str(<<"3", "1">>) @@
    "snr_host_lane2" :> Str(<<"3", "2">>) @@
    "snr_host_lane3" :> Str(<<"3", "3">>) @@
    "Cable_PN" :> Str(<<"P", "N", "1">>) @@
    "Cable_SN" :> Str(<<"S", "N", "1">>) @@
    "cable_technology" :> Str(<<"o", "p", "t", "i", "c", "a", "l">>) @@
    "cable_type" :> Str(<<"A", "O", "C">>) @@
    "cable_vendor" :> Str(<<"A", "c", "m", "e">>) @@
    "cable_length" :> Str(<<"3", "m">>) @@
    "vendor_name" :> Str(<<"V", "e", "n", "d">>) @@
    "Module_Temperature" :> Str(<<"7", "5">>) @@
    "Module_Voltage" :> Str(<<"3", "3", "0", "0">>) @@
    "successful_recovery_events" :> Str(<<"4">>) @@
    "total_successful_recovery_events" :> Str(<<"5">>) @@
    "unintentional_link_down_events" :> Str(<<"6">>) @@
    "intentional_link_down_events" :> Str(<<"7">>) @@
    "local_reason_opcode" :> Str(<<"8">>) @@
    "down_blame" :> Str(<<"r", "e", "m", "o", "t", "e">>) @@
    "hist2" :> Str(<<"0">>) @@
    "hist3" :> Str(<<"0">>) @@
    "hist4" :> Str(<<"0">>) @@
    "hist5" :> Str(<<"0">>) @@
    "hist6" :> Str(<<"0">>) @@
    "hist7" :> Str(<<"0">>) @@
    "hist8" :> Str(<<"0">>) @@
    "hist9" :> Str(<<"0">>) @@
    "hist10" :> Str(<<"0">>) @@
    "hist11" :> Str(<<"0">>) @@
    "hist12" :> Str(<<"0">>) @@
    "hist13" :> Str(<<"0">>) @@
    "hist14" :> Str(<<"0">>) @@
    "hist15" :> Str(<<"0">>)

\* the same columns on a quiet link: no corrections, a MAC that no local
\* interface has, the text N/A for the cable vendor
QuietRow ==
    ("MAC_Address" :> Str(<<"A", "A", "B", "B", "C", "C", "D", "D", "E", "E", "1", "0">>) @@
     "Link_Down" :> Str(<<"0">>) @@
     "Time_since_last_clear_[Min]" :> Str(<<"0", ".", "5">>) @@
     "Raw_BER" :> Str(<<"1", "e", "-", "9">>) @@
     "Effective_BER" :> Str(<<"0">>) @@
     "hist0" :> Str(<<"0">>) @@
     "hist1" :> Str(<<"0">>) @@
     "Module_Temperature" :> Str(<<"5", "5">>) @@
     "Module_Voltage" :> Str(<<"2", "9", "0", "0">>) @@
     "cable_vendor" :> Str(<<"N", "/", "A">>)) @@ FullRow

BaseRows == {FullRow, QuietRow}

ExpectedColumns == DOMAIN FullRow

\* how a record can lack a value: no column, None, an empty or a blank text
MissingCells == {Absent, NoneVal, Str(<<>>), Str(<<" ">>)}

Groups ==
    [ port   |-> {"Port_Number", "MAC_Address", "Protocol", "Speed_[Gb/s]", "Active_FEC"},
      link   |-> {"Link_Down", "Link_Down_GB_host", "Link_Down_GB_line",
                  "Time_since_last_clear_[Min]"},
      ber    |-> {"Raw_BER", "Raw_BER_lane0", "Raw_BER_lane1", "Raw_BER_lane2",
                  "Raw_BER_lane3", "Effective_BER"},
      hist0  |-> {"hist0"},
      hists  |-> { HistKeys[i] : i \in 2..16 },
      vendor |-> {"cable_vendor"},
      module |-> {"Cable_PN", "Cable_SN", "cable_technology", "cable_type",
                  "cable_length", "vendor_name", "Module_Temperature", "Module_Voltage"},
      events |-> {"snr_media_lane0", "snr_media_lane1", "snr_media_lane2",
                  "snr_media_lane3", "snr_host_lane0", "snr_host_lane1",
                  "snr_host_lane2", "snr_host_lane3",
                  "successful_recovery_events", "total_successful_recovery_events",
                  "unintentional_link_down_events", "intentional_link_down_events",
                  "local_reason_opcode", "down_blame"} ]

\* the cells of base with the columns of the groups gs holding the cell c
Blanked(base, gs, c) ==
    [ k \in DOMAIN base |-> IF \E g \in gs : k \in Groups[g] THEN c ELSE base[k] ]

\* columns of odd records: values that no link reports in good order,
\* columns outside the categories, and values beyond the header
OddCells ==
    { "Raw_BER" :> Str(<<"i", "n", "f">>),
      "Effective_BER" :> Str(<<"n", "a", "n">>),
      "Effective_BER" :> Str(<<"5", "e", "-", "3", "2", "4">>),
      "Effective_BER" :> Str(<<"1", "e", "-", "2", "1", "0">>),
      "Raw_BER" :> Str(<<"x">>),
      "Effective_BER" :> Str(<<"1", "e", "-", "7">>),
      "Time_since_last_clear_[Min]" :> Str(<<"1", "e", "-", "3", "2", "0">>),
      ("Time_since_last_clear_[Min]" :> Str(<<"1", "e", "-", "3", "2", "0">>)) @@ ("hist0" :> Str(<<"0">>))
          @@ ("hist1" :> Str(<<"0">>)),
      "Time_since_last_clear_[Min]" :> Str(<<"i", "n", "f">>),
      "Time_since_last_clear_[Min]" :> Str(<<"n", "a", "n">>),
      "Time_since_last_clear_[Min]" :> Str(<<"0">>),
      "Time_since_last_clear_[Min]" :> Str(<<"-", "5">>),
      "Time_since_last_clear_[Min]" :> Str(<<"a", "b", "c">>),
      ("hist0" :> Str(<<"-", "5">>)) @@ ("hist1" :> Str(<<"3">>)),
      ("hist0" :> Str(<<"-", "5">>)) @@ ("hist1" :> Str(<<"5">>)),
      ("hist0" :> Str(<<"x">>)) @@ ("hist15" :> Str(<<"7">>)),
      ("hist0" :> Str(<<"-", "2">>)) @@ ("hist1" :> Str(<<"5">>)),
      "hist0" :> Str(<<"2", "5", "0", "0", "0", "0", "0">>),
      "Link_Down" :> Str(<<"x">>),
      "Link_Down" :> Str(<<"-", "2">>),
      "Module_Temperature" :> Str(<<"h", "o", "t">>),
      "Module_Temperature" :> Str(<<"6", "5", ".", "5">>),
      "Module_Voltage" :> Str(<<"3", "7", "0", "0", ".", "5">>),
      ("Zeta" :> Str(<<"z">>)) @@ ("Device" :> Str(<<"d">>)) @@ ("alpha" :> Str(<<" ">>)),
      RestKey :> ListVal(<< <<"x">> >>),
      (RestKey :> ListVal(<< <<"x">>, <<" ", "y">> >>)) @@ ("Zeta" :> Str(<<"z">>)) }

\* the mapping a list of (MAC, info) entries leaves when they are assigned
\* in list order
RECURSIVE MapOf(_)
MapOf(entries) ==
    IF entries = <<>> THEN <<>>
    ELSE LET e == entries[Len(entries)]
         IN  MapSet(MapOf(SubSeq(entries, 1, Len(entries) - 1)), e.mac, e.info)

IfEntry(mac, ifname, st) == [mac |-> mac, info |-> [ifname |-> ifname, state |-> st]]

Eth0 == IfEntry(<<"a", "a", ":", "b", "b", ":", "c", "c", ":", "d", "d", ":", "e", "e", ":", "0", "f">>, <<"e", "t", "h", "0">>, S_UP)

Eth1 == IfEntry(<<"1", "1", ":", "2", "2", ":", "3", "3", ":", "4", "4", ":", "5", "5", ":", "6", "6">>, <<"e", "t", "h", "1">>, S_DOWN)

Eth2 == IfEntry(<<"a", "a", ":", "b", "b", ":", "c", "c", ":", "d", "d", ":", "e", "e", ":", "1", "0">>, <<"e", "t", "h", "2">>, S_UNKNOWN)

Bond0 == IfEntry(<<"a", "a", ":", "b", "b", ":", "c", "c", ":", "d", "d", ":", "e", "e", ":", "0", "f">>, <<"b", "o", "n", "d", "0">>, S_DOWN)

\* the interface mappings handed to the report, by the order of their entries
IfEntryLists ==
    { <<>>, <<Eth1>>, <<Eth0, Eth1>>, <<Eth1, Eth0>>, <<Eth1, Eth2, Eth0>>,
      <<Eth2, Bond0>>, <<Bond0, Eth2>> }

IfMaps == { MapOf(es) : es \in IfEntryLists }

RowRecords ==
    { MkRow(Blanked(base, gs, c)) :
          base \in BaseRows, gs \in SUBSET DOMAIN Groups, c \in MissingCells }
    \cup { MkRow(odd @@ Blanked(FullRow, gs, Absent)) :
               odd \in OddCells, gs \in {{}, DOMAIN Groups} }

FileName == <<"f", ".", "c", "s", "v">>

InitRow ==
    /\ pc = "start"
    /\ row \in RowRecords
    /\ \E m \in IfMaps : if_map = RetMap(m)
    /\ report = Report("", <<>>)
    /\ verdict = "" /\ ip_out = [ok |-> FALSE, text |-> <<>>]
    /\ IdleSci /\ IdleCsv /\ IdleMac /\ IdleHist /\ IdleFmt /\ IdleRun

\* process_file's call summarize_row(row, filename, i, logf, if_map) for
\* the first record of a file (i = 0)
SummarizeRow ==
    /\ pc = "start"
    /\ report' = summarize_row(row, FileName, 0, if_map.mapping)
    /\ pc' = "done"
    /\ UNCHANGED <<row, verdict, ber_text, sci, stream, rows, ip_out, if_map, amber_mac, mac_addr, digest, fmt_num, formatted, paths, next_path, builds, invoked, calls, log, processed_files, created_templates, errors, kernel_logs, summary>>

NextRow == SummarizeRow

SpecRow == InitRow /\ [][NextRow]_vars

-----------------------------------------------------------------------------
(* Claims about the report of a record with missing columns.               *)

\* the record has no value for the column
MissingOrEmpty(r, k) == Cell(r, k) \in MissingCells

\* the record is one with every expected column, less the values of any of
\* its columns
BlankedBase(r) ==
    /\ DOMAIN r \subseteq ExpectedColumns
    /\ \E base \in BaseRows :
           \A k \in ExpectedColumns : Cell(r, k) = base[k] \/ MissingOrEmpty(r, k)

\* the report has a line with the tag, and each such line carries the text
Shown(rep, tag, text) ==
    /\ \E i \in 1..Len(rep.lines) : rep.lines[i].tag = tag
    /\ \A i \in 1..Len(rep.lines) : rep.lines[i].tag = tag => rep.lines[i].text = text

\* the line with the tag; its text begins, ends, or has the i-th of its
\* comma-separated items as given
LineOf(rep, tag) == rep.lines[CHOOSE i \in 1..Len(rep.lines) : rep.lines[i].tag = tag]

StartsWith(s, p) == Len(s) >= Len(p) /\ SubSeq(s, 1, Len(p)) = p

EndsWith(s, p) == Len(s) >= Len(p) /\ SubSeq(s, Len(s) - Len(p) + 1, Len(s)) = p

ItemIs(rep, tag, i, text) ==
    /\ \E j \in 1..Len(rep.lines) : rep.lines[j].tag = tag
    /\ LET items == Split(LineOf(rep, tag).text, ",")
       IN  Len(items) >= i /\ Strip(items[i]) = text

\* the labels of the lines that show one column alone
LabelsOf ==
    [ k \in ExpectedColumns |->
        CASE k = "Port_Number" -> {"Port", "* Port"}
          [] k = "MAC_Address" -> {"MAC Address (amBER)", "MAC Address (parsed)"}
          [] k = "Protocol" -> {"Protocol"}
          [] k = "Speed_[Gb/s]" -> {"Speed [Gb/s]", "* Speed"}
          [] k = "Active_FEC" -> {"Active FEC"}
          [] k = "Link_Down" -> {"Link Down Count", "* Link Downs"}
          [] k = "Time_since_last_clear_[Min]" -> {"Time since last clear [min]"}
          [] k = "Raw_BER" -> {"* Raw BER"}
          [] k = "Effective_BER" -> {"* Effective BER"}
          [] k = "Cable_PN" -> {"Cable PN"}
          [] k = "Cable_SN" -> {"Cable SN"}
          [] k = "cable_technology" -> {"Cable technology"}
          [] k = "cable_type" -> {"Cable type"}
          [] k = "cable_length" -> {"Length"}
          [] k = "Module_Temperature" -> {"Module temperature"}
          [] k = "Module_Voltage" -> {"Module voltage"}
          [] k = "successful_recovery_events" -> {"Successful recovery events"}
          [] k = "total_successful_recovery_events" -> {"Total successful recoveries"}
          [] k = "unintentional_link_down_events" -> {"Unintentional link-downs"}
          [] k = "intentional_link_down_events" -> {"Intentional link-downs"}
          [] k = "local_reason_opcode" -> {"Last local reason opcode"}
          [] k = "down_blame" -> {"Last down blame"}
          [] OTHER -> {} ]

\* the text of the line of a bin that counts 0 among bins that do not
ZeroBin(i) == RJust(NatStr(i), 2) \o <<":", " ", " ", " ", " ", " ", " ", " ", " ", "0", " ", "(", " ", " ", " ", " ", " ", " ", " ", " ", " ", " ", " ", " ", " ", " ", "0", ")", " ", "-", " ", " ", "0", ".", "0", "0">>

\* the report shows the placeholder where it shows the column k
Placeholder(rep, k) ==
    /\ \A tag \in LabelsOf[k] : Shown(rep, tag, NA)
    /\ k = "MAC_Address" =>
           /\ Shown(rep, "Host interface (if found)", <<"N", "/", "A", " ", "(", "s", "t", "a", "t", "e", "=", "N", "/", "A">>)
           /\ Shown(rep, "* Interface", <<"N", "/", "A", " ", "(", "N", "/", "A">>)
           /\ Contains(LineOf(rep, "PORT=").text, <<" ", "M", "A", "C", "=", "N", "/", "A", " ", "S", "P", "E", "E", "D", "=">>)
    /\ k = "Port_Number" => StartsWith(LineOf(rep, "PORT=").text, <<"N", "/", "A", " ", "I", "F", "=">>)
    /\ k = "Raw_BER" => Shown(rep, "Raw BER (aggregate)", <<"N", "/", "A", " ", "(", "N", "/", "A">>)
    /\ k = "Effective_BER" => Shown(rep, "Effective BER", <<"N", "/", "A", " ", "(", "N", "/", "A">>)
    /\ k = "Link_Down_GB_host" =>
           StartsWith(LineOf(rep, "Link Down (GB host / line)").text, <<"N", "/", "A", " ", "/", " ">>)
    /\ k = "Link_Down_GB_line" =>
           EndsWith(LineOf(rep, "Link Down (GB host / line)").text, <<" ", "/", " ", "N", "/", "A">>)
    /\ \A i \in 1..4 :
           /\ k = <<"Raw_BER_lane0", "Raw_BER_lane1", "Raw_BER_lane2", "Raw_BER_lane3">>[i]
                  => ItemIs(rep, "Raw BER lanes 0-3", i, NA)
           /\ k = <<"snr_media_lane0", "snr_media_lane1", "snr_media_lane2",
                    "snr_media_lane3">>[i]
                  => ItemIs(rep, "Media lanes 0-3", i, NA)
           /\ k = <<"snr_host_lane0", "snr_host_lane1", "snr_host_lane2",
                    "snr_host_lane3">>[i]
                  => ItemIs(rep, "Host  lanes 0-3", i, NA)
    /\ \A i \in 1..16 :
           k = HistKeys[i] =>
               LET bins == SelectSeq(rep.lines, LAMBDA l : l.tag = "Bin")
               IN  IF bins = <<>>
                   THEN Shown(rep, "All bins are zero (no FEC corrections)", <<>>)
                   ELSE Len(bins) = 16 /\ bins[i].text = ZeroBin(i - 1)

\* the vendor line shows the placeholder when neither vendor column has a value
VendorPlaceholder(rep, r) ==
    (MissingOrEmpty(r, "cable_vendor") /\ MissingOrEmpty(r, "vendor_name"))
        => Shown(rep, "Vendor", NA)

\* C5: for a record in which any of the expected columns are missing, None,
\* empty or blank (the record with no column at all among them),
\* summarize_row returns without raising, and its report shows N/A for
\* every such column, and a count of 0 for every such histogram bin
C5_MissingFieldsPlaceholder ==
    (pc = "done" /\ BlankedBase(row)) =>
        /\ report.raised = ""
        /\ report.lines[Len(report.lines)] = L("", <<>>)
        /\ \A k \in ExpectedColumns : MissingOrEmpty(row, k) => Placeholder(report, k)
        /\ VendorPlaceholder(report, row)

\* the report of the record with no column at all is complete, with N/A for
\* the port, the MAC, both BER values and the vendor
C5_Witness ==
    /\ pc = "done"
    /\ DOMAIN row = {}
    /\ report.raised = ""
    /\ Shown(report, "Port", NA)
    /\ Shown(report, "MAC Address (parsed)", NA)
    /\ Shown(report, "Raw BER (aggregate)", <<"N", "/", "A", " ", "(", "N", "/", "A">>)
    /\ Shown(report, "Vendor", NA)
    /\ Shown(report, "[All Available CSV Fields (Raw Data)]", <<>>)

\* C5 as stated, for every record that lacks a value for an expected column,
\* whatever its other columns hold: summarize_row returns without raising and
\* its report shows N/A (a count of 0 for a histogram bin) for every
\* expected column the record has no value for
C5_CompletesForEveryRecord ==
    (pc = "done" /\ report # Report("", <<>>)
     /\ \E k \in ExpectedColumns : MissingOrEmpty(row, k)) =>
        /\ report.raised = ""
        /\ \A k \in ExpectedColumns : MissingOrEmpty(row, k) => Placeholder(report, k)
        /\ VendorPlaceholder(report, row)

-----------------------------------------------------------------------------
(* Claims about the interface shown in a report.                           *)

\* the text of the host-interface line for an entry of the mapping
HostText(info) == info.ifname \o <<" ", "(", "s", "t", "a", "t", "e", "=">> \o info.state

\* C11: when MAC_Address converts to a canonical MAC m and the mapping has
\* m, the report shows the name and the state stored for m, whatever else
\* the mapping holds and in whatever order it was filled; when the mapping
\* lacks m, or MAC_Address does not convert, it shows N/A for both
C11_InterfaceOfMac ==
    pc = "done" /\ report # Report("", <<>>) =>
        LET m == mac_from_amber_hex(safe_get(row, "MAC_Address", NA))
            ifm == if_map.mapping
            info == IF m # NoneVal /\ m.s \in DOMAIN ifm
                    THEN ifm[m.s] ELSE [ifname |-> NA, state |-> NA]
        IN  /\ Shown(report, "Host interface (if found)", HostText(info))
            /\ \A i \in 1..Len(report.lines) :
                   report.lines[i].tag = "* Interface"
                       => report.lines[i].text = info.ifname \o <<" ", "(">> \o info.state

\* the MAC of the record is one of three entries, filled in last, and the
\* report shows its interface
C11_Witness ==
    /\ pc = "done"
    /\ Cardinality(DOMAIN if_map.mapping) = 3
    /\ mac_from_amber_hex(safe_get(row, "MAC_Address", NA)) = Str(Eth0.mac)
    /\ Shown(report, "Host interface (if found)", HostText(Eth0.info))

-----------------------------------------------------------------------------
(* summarize_histogram on the bins of a record.                            *)

\* what a histogram column of a record may hold
HistCells == { Absent, Str(<<"0">>), Str(<<"5">>), Str(<<"-", "5">>), Str(<<"x">>),
               Str(<<"1", "5", "0", "0">>) }

HistTail == { Absent, Str(<<"0">>), Str(<<"2">>), Str(<<"-", "2">>) }

HistRecords ==
    { MkRow([ hist0 |-> a, hist1 |-> b, hist3 |-> c, hist4 |-> d, hist15 |-> e ]) :
        a \in HistCells, b \in HistCells, c \in HistTail,
        d \in { Absent, Str(<<"7">>), Str(<<" ", "7", " ">>) }, e \in HistTail }

InitHist ==
    /\ pc = "start"
    /\ row \in HistRecords
    /\ digest = <<>>
    /\ verdict = ""
    /\ IdleSci /\ IdleCsv /\ IdleIf /\ IdleMac /\ IdleRow /\ IdleFmt /\ IdleRun

\* summarize_row's call hist_summary = summarize_histogram(row)
SummarizeHistogram ==
    /\ pc = "start"
    /\ digest' = summarize_histogram(row)
    /\ pc' = "done"
    /\ UNCHANGED <<row, verdict, ber_text, sci, stream, rows, ip_out, if_map, amber_mac, mac_addr, report, fmt_num, formatted, paths, next_path, builds, invoked, calls, log, processed_files, created_templates, errors, kernel_logs, summary>>

NextHist == SummarizeHistogram

SpecHist == InitHist /\ [][NextHist]_vars

\* the 16 bins of a record, a missing or unparsable one counted as 0
BinsOf(r) ==
    [ i \in 1..16 |->
        IF MissingOrEmpty(r, HistKeys[i]) THEN 0
        ELSE LET p == ParseInt(r[HistKeys[i]].s) IN IF p.ok THEN p.n ELSE 0 ]

\* the highest index whose bin is not zero
HighestNonZero(bins) == Max({ i \in 0..15 : bins[i + 1] # 0 })

\* C12: for every record summarize_histogram takes the 16 bins with a missing
\* or unparsable bin as 0; when their sum is zero it returns the fixed
\* no-data message, otherwise the digest of the sum, the first four bins in
\* index order and the highest index whose bin is not zero
C12_HistogramDigest ==
    pc = "done" /\ digest # <<>> =>
        LET bins == BinsOf(row)
            total == Sum(bins)
        IN  IF total = 0 THEN digest = S_NoHist
            ELSE digest = HistDigest(bins, total, HighestNonZero(bins))

\* C12 holds of the records none of whose bins is negative
C12_NonNegativeBins ==
    (pc = "done" /\ digest # <<>> /\ \A i \in 1..16 : BinsOf(row)[i] >= 0) =>
        LET bins == BinsOf(row)
            total == Sum(bins)
        IN  IF total = 0 THEN digest = S_NoHist
            ELSE digest = HistDigest(bins, total, HighestNonZero(bins))

\* a digest over bins with counts, none negative, the last of them bin 4
C12_Witness ==
    /\ pc = "done"
    /\ digest # S_NoHist
    /\ \A i \in 1..16 : BinsOf(row)[i] >= 0
    /\ HighestNonZero(BinsOf(row)) = 4
    /\ BinsOf(row)[1] = 1500

-----------------------------------------------------------------------------
(* Claims about the derived rates of a report.                             *)

\* the report has a line with the tag
HasLine(rep, tag) == \E i \in 1..Len(rep.lines) : rep.lines[i].tag = tag

\* the elapsed minutes of the record parse to a number above 0
MinutesPositive(r) ==
    LET v == safe_float(safe_get(r, "Time_since_last_clear_[Min]", NA))
    IN  v.k \in {"num", "inf"} /\ ~v.neg

\* the rates can be derived: minutes above 0 and a total of the bins above 0
RateDerivable(r) == MinutesPositive(r) /\ Sum(BinsOf(r)) > 0

\* C13: a report that comes to its statistics section has the two FEC
\* correction-rate lines if and only if the elapsed minutes parse to more
\* than 0 and the total of the bins is more than 0; otherwise it has
\* neither line
C13_RateLinesIff ==
    (pc = "done" /\ HasLine(report, "[Additional Statistics]")) =>
        IF RateDerivable(row)
        THEN /\ HasLine(report, "FEC Correction Rate /sec")
             /\ HasLine(report, "FEC Correction Rate /min")
        ELSE /\ ~HasLine(report, "FEC Correction Rate /sec")
             /\ ~HasLine(report, "FEC Correction Rate /min")

\* the half of C13 that holds: no report has a rate line unless the rates
\* can be derived, and a report that ends without raising has both lines
\* whenever they can
C13_NoRateUnlessDerivable ==
    pc = "done" =>
        /\ ~RateDerivable(row) =>
               /\ ~HasLine(report, "FEC Correction Rate /sec")
               /\ ~HasLine(report, "FEC Correction Rate /min")
        /\ RateDerivable(row) /\ report.raised = "" =>
               /\ HasLine(report, "FEC Correction Rate /sec")
               /\ HasLine(report, "FEC Correction Rate /min")

\* a finished report with both rate lines: 1505 corrections in 10 minutes
C13_Witness ==
    /\ pc = "done"
    /\ report.raised = ""
    /\ RateDerivable(row)
    /\ Shown(report, "FEC Correction Rate /min",
             <<"1", "5", "0", "/", "m", "i", "n", " ", "(", "1", "5", "0">>)

-----------------------------------------------------------------------------
(* format_large_number on the counts and totals of a histogram.            *)

\* the largest integer format_large_number is run on here
MaxNum == 2000000000

\* the integers around each threshold, and some inside each range; none of
\* them lies halfway between two one-decimal values of its range
FmtNums ==
    (0..12) \cup (990..1012) \cup {1049, 1051, 1500, 12345, 500149, 999949, 999951}
    \cup (999990..1000010) \cup {1049999, 1050001, 2500000, 123456789, 999949999, 999950001}
    \cup (999999990..1000000010) \cup {1049999999, 1050000001, 1500000001, MaxNum}

InitFmt ==
    /\ pc = "start"
    /\ fmt_num \in FmtNums
    /\ formatted = <<>>
    /\ IdleClassify /\ IdleSci /\ IdleCsv /\ IdleIf /\ IdleMac /\ IdleRow /\ IdleHist /\ IdleRun

\* summarize_histogram's call total_formatted = format_large_number(total)
FormatLargeNumber ==
    /\ pc = "start"
    /\ formatted' = format_large_number(fmt_num)
    /\ pc' = "done"
    /\ UNCHANGED <<row, verdict, ber_text, sci, stream, rows, ip_out, if_map, amber_mac, mac_addr, report, digest, fmt_num, paths, next_path, builds, invoked, calls, log, processed_files, created_templates, errors, kernel_logs, summary>>

NextFmt == FormatLargeNumber

SpecFmt == InitFmt /\ [][NextFmt]_vars

\* text is n / (10 * tenth) to one decimal, with the suffix: the number q
\* of tenths nearest to n, written with its last digit after the point
OneDecimalOf(text, n, tenth, suffix) ==
    \E q \in {n \div tenth, n \div tenth + 1} :
        /\ 2 * (IF n >= tenth * q THEN n - tenth * q ELSE tenth * q - n) <= tenth
        /\ text = NatStr(q \div 10) \o <<".">> \o NatStr(q % 10) \o suffix

-----------------------------------------------------------------------------
(* Claims about the detailed histogram of a report.                        *)

\* the bin lines of a report, in the order they were written
BinLines(rep) == SelectSeq(rep.lines, LAMBDA l : l.tag = "Bin")

\* the largest count whose percentage is compared as an exact fraction
MaxExact == 200000

\* text ends with the percentage of count in total to two decimals: a
\* number h of hundredths of a percent within half a hundredth of
\* 100 * count / total
PercentOf(text, count, total) ==
    LET c == IF count < 0 THEN 0 - count ELSE count
    IN  \E h \in {(c * 10000) \div total, (c * 10000) \div total + 1} :
            /\ 2 * (IF h * total >= c * 10000 THEN h * total - c * 10000
                    ELSE c * 10000 - h * total) <= total
            /\ EndsWith(text, <<")", " ", "-", " ">>
                              \o RJust(FixedStr(count < 0, h, 2), 5))

\* C15: in the detailed histogram of a report, when the total of the 16
\* bins is above 0 there are exactly 16 bin lines, for the bins 0..15 in
\* that order, each with the percentage count / total * 100; otherwise no
\* bin line and no percentage is written, only the all-zero line
C15_BinLines ==
    (pc = "done" /\ HasLine(report, "[Detailed FEC Histogram (all 16 bins)]")) =>
        LET bins == BinsOf(row)
            total == Sum(bins)
            lines == BinLines(report)
        IN  IF total > 0
            THEN /\ Len(lines) = 16
                 /\ ~HasLine(report, "All bins are zero (no FEC corrections)")
                 /\ \A i \in 0..15 :
                        /\ StartsWith(lines[i + 1].text, RJust(NatStr(i), 2) \o <<":", " ">>)
                        /\ (total <= MaxExact /\ bins[i + 1] <= MaxExact /\ bins[i + 1] >= 0 - MaxExact)
                               => PercentOf(lines[i + 1].text, bins[i + 1], total)
            ELSE /\ lines = <<>>
                 /\ HasLine(report, "All bins are zero (no FEC corrections)")

\* a report with 16 bin lines: 1500 and 5 corrections in bins 0 and 1 are
\* 99.67% and 0.33% of the total
C15_Witness ==
    /\ pc = "done"
    /\ Len(BinLines(report)) = 16
    /\ BinsOf(row)[1] = 1500 /\ BinsOf(row)[2] = 5
    /\ EndsWith(BinLines(report)[1].text, <<"9", "9", ".", "6", "7">>)
    /\ EndsWith(BinLines(report)[2].text, <<" ", "0", ".", "3", "3">>)

-----------------------------------------------------------------------------
(* Claims about the sections of a report.                                  *)

\* the headers of the sections of a report, in source order
Sections ==
    << "[Link / Protocol]", "[BER / FEC Metrics]", "[SNR (if available)]",
       "[Cable / Module]", "[Link Events / Recovery]", "[SUMMARY / VERDICT]",
       "[Grep-Friendly Headline]", "[Additional Statistics]",
       "[All Available CSV Fields (Raw Data)]" >>

SectionTags == { Sections[i] : i \in 1..Len(Sections) }

\* the section headers of a report, in the order they were written
SectionsOf(rep) ==
    LET heads == SelectSeq(rep.lines, LAMBDA l : l.tag \in SectionTags)
    IN  [ i \in 1..Len(heads) |-> heads[i].tag ]

\* C16: for every record the report of summarize_row has each section once
\* and in the fixed order: Link / Protocol, BER / FEC Metrics, SNR, Cable /
\* Module, Link Events / Recovery, Summary / Verdict with its one headline
\* line, Additional Statistics, the raw field dump
C16_AllSectionsInOrder ==
    pc = "done" /\ report # Report("", <<>>) =>
        /\ SectionsOf(report) = Sections
        /\ Len(SelectSeq(report.lines, LAMBDA l : l.tag = "PORT=")) = 1

\* what holds of every report: the sections it has are the first of the
\* fixed order, each once, and all of them when summarize_row did not raise
C16_SectionsPrefix ==
    pc = "done" /\ report # Report("", <<>>) =>
        /\ Len(SectionsOf(report)) <= Len(Sections)
        /\ SectionsOf(report) = SubSeq(Sections, 1, Len(SectionsOf(report)))
        /\ Len(SelectSeq(report.lines, LAMBDA l : l.tag = "PORT=")) <= 1
        /\ report.raised = "" => C16_AllSectionsInOrder

\* a report with all its sections for the record without any column
C16_Witness ==
    /\ pc = "done"
    /\ DOMAIN row = {}
    /\ report.raised = ""
    /\ SectionsOf(report) = Sections

-----------------------------------------------------------------------------
(* Claims about the raw field dump of a report.                            *)

\* the columns of a record that no category names and that hold a value
UnknownColumns(r) ==
    { k \in DOMAIN r : /\ k \notin CategoryFields
                       /\ k # RestKey
                       /\ r[k].t = "str"
                       /\ Strip(r[k].s) \notin {<<>>, NA} }

\* the report shows the column with its value below the Other Fields header
InOtherFields(rep, r, k) ==
    \E i, j \in 1..Len(rep.lines) :
        /\ i < j
        /\ rep.lines[i].tag = "[Other Fields]"
        /\ rep.lines[j] = L(k, Strip(r[k].s))

\* C17: every column of a record that is in none of the known categories
\* is shown with its value in the Other Fields part of the record's raw
\* field dump
C17_UnknownColumnsShown ==
    (pc = "done" /\ HasLine(report, "[All Available CSV Fields (Raw Data)]")) =>
        \A k \in UnknownColumns(row) : InOtherFields(report, row, k)

\* what holds: a report of a call that did not raise shows every such
\* column, and no report shows a column without a value
C17_ShownUnlessRaised ==
    pc = "done" =>
        /\ report.raised = "" =>
               \A k \in UnknownColumns(row) : InOtherFields(report, row, k)
        /\ \A k \in DOMAIN row \ (CategoryFields \cup UnknownColumns(row)) :
               ~HasLine(report, k)

\* a report that shows the two columns Device and Zeta, not the blank alpha
C17_Witness ==
    /\ pc = "done"
    /\ UnknownColumns(row) = {"Device", "Zeta"}
    /\ "alpha" \in DOMAIN row
    /\ InOtherFields(report, row, "Device")
    /\ InOtherFields(report, row, "Zeta")

-----------------------------------------------------------------------------
(* process_file and the loop of main over the input files.                 *)

\* a file of the run: what is found at its path, and the records
\* read_csv_safely returns for it
\*   missing     nothing is there, and a template can be created
\*   locked      nothing is there, and no template can be created
\*   dir         a directory
\*   unreadable  a regular file that open() refuses
\*   header      a regular file with no record: empty, or a header alone
\*   data        a regular file with records
File(kind, records) == [kind |-> kind, rows |-> records]

\* the calls of the loop of lines 896-897 from one call on: the call of
\* summarize_row for the record idx, and the calls for the later records
\* unless that call raised
Called(idx, ifm, raised, rest) ==
    IF raised # ""
    THEN [raised |-> raised,
          calls |-> << [idx |-> idx, if_map |-> ifm, raised |-> raised] >>]
    ELSE [raised |-> rest.raised,
          calls |-> << [idx |-> idx, if_map |-> ifm, raised |-> raised] >> \o rest.calls]

\* for i, row in enumerate(rows): summarize_row(row, path, i, logf, if_map),
\* from the i-th record on
RECURSIVE RowCalls(_, _, _)
RowCalls(records, i, ifm) ==
    IF i > Len(records) THEN [raised |-> "", calls |-> <<>>]
    ELSE Called(i - 1, ifm, summarize_row(records[i], FileName, i - 1, ifm).raised,
                RowCalls(records, i + 1, ifm))

\* what process_file did: the exception it ended with, its messages, its
\* calls of summarize_row, and whether its path exists afterwards
Processed(raised, msgs, row_calls, exists) ==
    [raised |-> raised, log |-> msgs, calls |-> row_calls, exists |-> exists]

\* process_file on a file with records ends as its loop does
Reported(done) == Processed(done.raised, <<>>, done.calls, TRUE)

process_file(f, ifm) ==
    CASE f.kind = "missing" ->
            Processed("", <<"[ERROR] file does not exist",
                            "[SUCCESS] Template CSV file created",
                            "[WARN] CSV has no data rows (only headers)">>, <<>>, TRUE)
      [] f.kind = "locked" ->
            Processed("", <<"[ERROR] file does not exist",
                            "[ERROR] Failed to create template CSV file">>, <<>>, FALSE)
      [] f.kind = "dir" ->
            Processed("", <<"[ERROR] is a directory, not a file">>, <<>>, TRUE)
      [] f.kind = "unreadable" ->
            Processed("", <<"[ERROR] Failed to read">>, <<>>, TRUE)
      [] f.kind = "header" ->
            Processed("", <<"[WARN] CSV has no valid data rows">>, <<>>, TRUE)
      [] f.kind = "data" -> Reported(RowCalls(f.rows, 1, ifm))

\* a mutant of Catches: the loop body has no except clause
Catches_none(raised) == FALSE

\* the exceptions of the loop body that "except Exception" of line 1437
\* catches
Catches(raised) == raised \in {"TypeError", "ValueError", "OverflowError"}

\* lines 1418-1430: the list main puts a path on after process_file
\* returned; reading a directory or an unreadable file again raises, and
\* the bare except lists the path as processed with 0 rows
TrackPath(f, out) ==
    IF f.kind \in {"missing", "locked"}
    THEN IF out.exists THEN "templates" ELSE "none"
    ELSE IF f.kind \in {"dir", "unreadable"} THEN "processed"
    ELSE IF f.rows # <<>> THEN "processed" ELSE "templates"

\* the messages msgs, each with the path it is about
Msgs(i, msgs) == [ k \in 1..Len(msgs) |-> [path |-> i, msg |-> msgs[k]] ]

\* lines 1443-1485
SummaryLines(processed, templates, errs, klogs) ==
    << [tag |-> "PROCESSING SUMMARY", n |-> 0] >>
    \o (IF processed = <<>> THEN <<>>
        ELSE << [tag |-> "[SUCCESS] Processed", n |-> Len(processed)] >>
             \o [ k \in 1..Len(processed) |-> [tag |-> "file", n |-> processed[k].path] ]
             \o [ k \in 1..Len(processed) |-> [tag |-> "cat", n |-> processed[k].path] ])
    \o (IF templates = <<>> THEN <<>>
        ELSE << [tag |-> "[INFO] Created", n |-> Len(templates)] >>
             \o [ k \in 1..Len(templates) |-> [tag |-> "template", n |-> templates[k]] ])
    \o (IF errs = <<>> THEN <<>>
        ELSE << [tag |-> "[ERROR]", n |-> Len(errs)] >>
             \o [ k \in 1..Len(errs) |-> [tag |-> "error", n |-> errs[k]] ])
    \o (IF klogs = <<>> THEN <<>>
        ELSE << [tag |-> "[INFO] Kernel messages captured", n |-> Len(klogs)] >>)
    \o << [tag |-> "=", n |-> 0] >>

\* the longest list of input files of a run
MaxPaths == 2

\* a healthy record, one with a value more than the header has columns, and
\* one whose effective BER is not a number
GoodRow == FullRow

LongRow == (RestKey :> ListVal(<< <<"x">> >>)) @@ FullRow

NanRow == ("Effective_BER" :> Str(<<"n", "a", "n">>)) @@ FullRow

RunRowLists ==
    { <<GoodRow>>, <<LongRow>>, <<GoodRow, QuietRow>>, <<LongRow, GoodRow>>,
      <<NanRow, GoodRow>> }

RunFiles ==
    { File(k, <<>>) : k \in {"missing", "locked", "dir", "unreadable", "header"} }
    \cup { File("data", rs) : rs \in RunRowLists }

PathLists == UNION { [1..n -> RunFiles] : n \in 1..MaxPaths }

\* what `ip -o link` gives when the run queries it
RunIpOuts ==
    { [ok |-> FALSE, text |-> <<>>],
      [ok |-> TRUE, text |-> <<"2", ":", " ", "e", "t", "h", "0", ":", " ", "<", "U", "P", ">", " ", "m", "t", "u", " ", "1", "5", "0", "0", " ", "s", "t", "a", "t", "e", " ", "U", "P", " ", "l", "i", "n", "k", "/", "e", "t", "h", "e", "r", " ", "a", "a", ":", "b", "b", ":", "c", "c", ":", "d", "d", ":", "e", "e", ":", "0", "f", " ", "b", "r", "d", " ", "f", "f", ":", "f", "f", ":", "f", "f", ":", "f", "f", ":", "f", "f", ":", "f", "f", "\n">>] }

\* a run of main on a list of files, without --collect
InitRun ==
    /\ pc = "start"
    /\ paths \in PathLists
    /\ next_path = 1
    /\ builds = 0 /\ invoked = <<>> /\ calls = <<>> /\ log = <<>>
    /\ processed_files = <<>> /\ created_templates = <<>> /\ errors = <<>>
    /\ kernel_logs = <<>> /\ summary = <<>>
    /\ IdleClassify /\ IdleSci /\ IdleCsv /\ IdleIf /\ IdleMac /\ IdleRow /\ IdleHist /\ IdleFmt

\* the mapping of a query of the interfaces, and main's message about it
Built(out, to) ==
    /\ ip_out' = out
    /\ if_map' = get_local_if_map(out)
    /\ builds' = builds + 1
    /\ log' = IF get_local_if_map(out).mapping # <<>>
              THEN log \o Msgs(0, <<"[INFO] Found local interface(s)">>) ELSE log
    /\ pc' = to

\* lines 1287-1290: if_map = get_local_if_map(), before any collection
BuildIfMap ==
    /\ pc = "start"
    /\ \E out \in RunIpOuts : Built(out, "expand")
    /\ UNCHANGED <<row, verdict, ber_text, sci, stream, rows, amber_mac,
                   mac_addr, report, digest, fmt_num, formatted, paths,
                   next_path, invoked, calls, processed_files,
                   created_templates, errors, kernel_logs, summary>>

\* lines 1379-1383: without --collect, if_map = get_local_if_map() again
RebuildIfMap ==
    /\ pc = "expand"
    /\ \E out \in RunIpOuts : Built(out, "kernel")
    /\ UNCHANGED <<row, verdict, ber_text, sci, stream, rows, amber_mac,
                   mac_addr, report, digest, fmt_num, formatted, paths,
                   next_path, invoked, calls, processed_files,
                   created_templates, errors, kernel_logs, summary>>

\* lines 1393-1400: capture_kernel_messages for the first file; dmesg may
\* fail
CaptureKernel ==
    /\ pc = "kernel"
    /\ \E captured \in BOOLEAN :
           kernel_logs' = IF captured THEN Append(kernel_logs, 1) ELSE kernel_logs
    /\ pc' = "files"
    /\ UNCHANGED <<row, verdict, ber_text, sci, stream, rows, ip_out, if_map,
                   amber_mac, mac_addr, report, digest, fmt_num, formatted,
                   paths, next_path, builds, invoked, calls, log,
                   processed_files, created_templates, errors, summary>>

\* the body of the loop for the i-th path, given what process_file did
Looped(i, f, out) ==
    /\ invoked' = Append(invoked, i)
    /\ calls' = calls \o [ k \in 1..Len(out.calls) |->
                             [path |-> i, idx |-> out.calls[k].idx,
                              if_map |-> out.calls[k].if_map,
                              raised |-> out.calls[k].raised] ]
    /\ log' = log \o Msgs(i, <<"[INFO] Processing">> \o out.log
                             \o (IF out.raised = "" THEN <<"[INFO] Done.">>
                                 ELSE IF Catches(out.raised)
                                 THEN <<"[ERROR] Failed to process">> ELSE <<>>))
    /\ processed_files' =
           IF out.raised = "" /\ TrackPath(f, out) = "processed"
           THEN Append(processed_files, [path |-> i, rows |-> Len(f.rows)])
           ELSE processed_files
    /\ created_templates' =
           IF out.raised = "" /\ TrackPath(f, out) = "templates"
           THEN Append(created_templates, i) ELSE created_templates
    /\ errors' = IF out.raised # "" /\ Catches(out.raised)
                 THEN Append(errors, i) ELSE errors
    /\ IF out.raised = "" \/ Catches(out.raised)
       THEN next_path' = i + 1 /\ pc' = pc
       ELSE next_path' = i /\ pc' = "aborted"

\* lines 1403-1440: one turn of the loop of main over file_paths
ProcessPath ==
    /\ pc = "files"
    /\ next_path <= Len(paths)
    /\ Looped(next_path, paths[next_path],
              process_file(paths[next_path], if_map.mapping))
    /\ UNCHANGED <<row, verdict, ber_text, sci, stream, rows, ip_out, if_map,
                   amber_mac, mac_addr, report, digest, fmt_num, formatted,
                   paths, builds, kernel_logs, summary>>

\* lines 1442-1485, after the loop
PrintSummary ==
    /\ pc = "files"
    /\ next_path > Len(paths)
    /\ summary' = SummaryLines(processed_files, created_templates, errors, kernel_logs)
    /\ pc' = "done"
    /\ UNCHANGED <<row, verdict, ber_text, sci, stream, rows, ip_out, if_map,
                   amber_mac, mac_addr, report, digest, fmt_num, formatted,
                   paths, next_path, builds, invoked, calls, log,
                   processed_files, created_templates, errors, kernel_logs>>

NextRun ==
    \/ BuildIfMap
    \/ RebuildIfMap
    \/ CaptureKernel
    \/ ProcessPath
    \/ PrintSummary

SpecRun == InitRun /\ [][NextRun]_vars

-----------------------------------------------------------------------------
(* Claims about a run over several files.                                  *)

\* the messages that report a failure or a no-data condition of a path
ConditionMsgs ==
    { "[ERROR] file does not exist", "[ERROR] Failed to create template CSV file",
      "[WARN] CSV has no data rows (only headers)",
      "[ERROR] is a directory, not a file", "[ERROR] Failed to read",
      "[WARN] CSV has no valid data rows", "[ERROR] Failed to process" }

\* the i-th path has a failure or a no-data condition: it is not a file
\* with records, or a call of summarize_row for one of its records raised
Troubled(i) ==
    \/ paths[i].kind # "data"
    \/ \E k \in 1..Len(calls) : calls[k].path = i /\ calls[k].raised # ""

\* the condition of the i-th path was reported as text
ReportedAsText(i) == \E k \in 1..Len(log) : log[k].path = i /\ log[k].msg \in ConditionMsgs

\* process_file was invoked on the first n paths, in list order, once each
InvokedInOrder(n) == invoked = [ k \in 1..n |-> k ]

\* C18: a failure or a no-data condition on one input file never aborts
\* the run: for every list of paths process_file is invoked on each path
\* in list order, also after a path that is missing, a directory,
\* unreadable, without usable rows, or whose reporting raises; the
\* condition is reported as text; the run is at a step of main, with a
\* path or the summary to come, until it has printed the final summary
C18_RunNeverAborts ==
    /\ pc # "aborted"
    /\ pc \in {"start", "expand", "kernel", "files", "done"}
    /\ pc = "files" => next_path \in 1..(Len(paths) + 1)
    /\ pc \in {"files", "done"} =>
           /\ InvokedInOrder(next_path - 1)
           /\ \A i \in 1..(next_path - 1) : Troubled(i) => ReportedAsText(i)
    /\ pc = "done" =>
           /\ InvokedInOrder(Len(paths))
           /\ summary # <<>>
           /\ summary[1].tag = "PROCESSING SUMMARY"

\* a finished run of two paths, the first of which raised in reporting and
\* is listed as an error, the second processed after it
C18_Witness ==
    /\ pc = "done"
    /\ Len(paths) = 2
    /\ paths[1].kind = "data" /\ Troubled(1)
    /\ errors = <<1>>
    /\ invoked = <<1, 2>>
    /\ paths[2].kind = "data" /\ ~Troubled(2)
    /\ processed_files = << [path |-> 2, rows |-> 2] >>

\* the rows of the i-th path that summarize_row was called for, in the
\* order of the calls
RowsCalled(i) ==
    LET mine == SelectSeq(calls, LAMBDA c : c.path = i)
    IN  [ k \in 1..Len(mine) |-> mine[k].idx ]

\* C19: a failure in the report of one row is scoped to that row: for
\* every file process_file has been invoked on, each row of the file has
\* had its report generated, the rows after a failing one included
C19_LaterRowsReported ==
    \A i \in 1..Len(invoked) :
        RowsCalled(i) = [ k \in 1..Len(paths[i].rows) |-> k - 1 ]

\* what holds instead: the rows of a file are reported in order up to the
\* first whose report raises, and none after it
C19_RowsUntilFirstRaise ==
    \A i \in 1..Len(invoked) :
        /\ Len(RowsCalled(i)) <= Len(paths[i].rows)
        /\ RowsCalled(i) = [ k \in 1..Len(RowsCalled(i)) |-> k - 1 ]
        /\ \A k \in 1..Len(calls) :
               calls[k].path = i =>
                   (calls[k].raised # "" <=> /\ calls[k].idx = Len(RowsCalled(i)) - 1
                                             /\ i \in { errors[e] : e \in 1..Len(errors) })
        /\ i \notin { errors[e] : e \in 1..Len(errors) }
               => Len(RowsCalled(i)) = Len(paths[i].rows)

\* a file whose first record has a value more than the header: its second
\* record never gets a report
C19_Witness ==
    /\ pc = "done"
    /\ paths[1] = File("data", <<LongRow, GoodRow>>)
    /\ RowsCalled(1) = <<0>>
    /\ errors = <<1>>

\* C20: in every run the interface listing is queried once, the mapping
\* built from it is the one passed to the report of every record of every
\* file, and no step of the reports changes it
C20_BuiltOnce ==
    pc \in {"files", "done"} =>
        /\ builds = 1
        /\ \A k \in 1..Len(calls) : calls[k].if_map = if_map.mapping

\* what holds instead: a run without --collect queries the listing twice,
\* and every report is passed the mapping of the second query
C20_BuiltTwiceSameMapping ==
    /\ pc \in {"kernel", "files", "done"} => builds = 2
    /\ \A k \in 1..Len(calls) : calls[k].if_map = if_map.mapping

\* once the loop over the files has begun the mapping stays as it is
C20_MappingKept == [][(pc = "kernel" \/ pc = "files") => if_map' = if_map]_vars

\* a finished run with three reports, each passed the mapping of the
\* second query
C20_Witness ==
    /\ pc = "done"
    /\ builds = 2
    /\ if_map.mapping # <<>>
    /\ Len(calls) = 3
    /\ \A k \in 1..Len(calls) : calls[k].if_map = if_map.mapping
    /\ \E k \in 1..Len(log) : log[k].msg = "[INFO] Found local interface(s)"

-----------------------------------------------------------------------------
(* Claims about the order and the cover of the classifier's rules.         *)

\* the orders in which the rules 2, 3 and 4 can be evaluated
RuleOrders ==
    { <<2, 3, 4>>, <<2, 4, 3>>, <<3, 2, 4>>, <<3, 4, 2>>, <<4, 2, 3>>, <<4, 3, 2>> }

\* the verdict when rule 1 is evaluated first and the rules 2, 3 and 4 in
\* the given order
ClassifyOrdered(order, raw_ber, eff_ber) ==
    IF RuleHolds(1, raw_ber, eff_ber) THEN RuleVerdict(1)
    ELSE IF RuleHolds(order[1], raw_ber, eff_ber) THEN RuleVerdict(order[1])
    ELSE IF RuleHolds(order[2], raw_ber, eff_ber) THEN RuleVerdict(order[2])
    ELSE IF RuleHolds(order[3], raw_ber, eff_ber) THEN RuleVerdict(order[3])
    ELSE V_Intermediate

\* C21 as stated: there is a pair of BER cells for which some order of the
\* rules 2, 3 and 4 gives a verdict other than the one classify_link_health
\* gives
C21_OrderChangesVerdict ==
    pc = "done" =>
        \E raw \in BerCells, eff \in BerCells, order \in RuleOrders :
            LET r == ClassifyRow(raw, eff, [Link_Down |-> Absent, hist0 |-> Absent,
                                            Module_Temperature |-> Absent])
            IN  ClassifyOrdered(order, RawOf(r), EffOf(r)) # classify_link_health(r)

\* C21, amended: the conditions of the rules 2, 3 and 4 exclude one
\* another (raw <= 1e-8 against raw > 1e-8, eff <= 1e-12 or absent against
\* eff > 1e-12), so for every input every order of the three rules gives
\* the verdict classify_link_health gives; only rule 1 overlaps rule 2
C21_OrderIrrelevant ==
    pc = "done" =>
        /\ \A order \in RuleOrders :
               ClassifyOrdered(order, RawOf(row), EffOf(row)) = verdict
        /\ \A m, n \in 2..4 :
               m # n => ~(RuleHolds(m, RawOf(row), EffOf(row))
                          /\ RuleHolds(n, RawOf(row), EffOf(row)))
        /\ RuleHolds(1, RawOf(row), EffOf(row)) => RuleHolds(2, RawOf(row), EffOf(row))

\* a record with a high raw and a high effective BER: Marginal, also when
\* rule 3 is evaluated before rule 4 and rule 2
C21_Witness ==
    /\ pc = "done"
    /\ IsText(row, "Raw_BER", <<"1", "e", "-", "7">>)
    /\ IsText(row, "Effective_BER", <<"5", "e", "-", "1", "2">>)
    /\ verdict = V_Marginal
    /\ ClassifyOrdered(<<3, 4, 2>>, RawOf(row), EffOf(row)) = V_Marginal

\* the value is absent or an ordinary number, one that compares with the
\* thresholds (not nan)
Ordered(v) == v.k # "nan"

\* C26: for every pair of BER values that are each absent or an ordinary
\* ordered number classify_link_health never returns Intermediate: the
\* verdict is one of Unknown, Healthy, CorrectableNoisy and Marginal
C26_NeverIntermediate ==
    (pc = "done" /\ Ordered(RawOf(row)) /\ Ordered(EffOf(row))) =>
        /\ verdict \in {V_Unknown, V_Healthy, V_Noisy, V_Marginal}
        /\ \E n \in 1..4 : RuleHolds(n, RawOf(row), EffOf(row))

\* a record with no raw BER and an effective BER above the threshold is
\* covered by rule 4
C26_Witness ==
    /\ pc = "done"
    /\ RawOf(row).k = "none"
    /\ IsText(row, "Effective_BER", <<"1", "e", "-", "7">>)
    /\ verdict = V_Marginal

\* the verdict Intermediate is that of the pairs with a value that does not
\* compare, and of none else
C26_IntermediateIsNaN ==
    pc = "done" =>
        (verdict = V_Intermediate <=>
            /\ ~(Ordered(RawOf(row)) /\ Ordered(EffOf(row)))
            /\ ~RuleHolds(4, RawOf(row), EffOf(row))
            /\ ~RuleHolds(2, RawOf(row), EffOf(row))
            /\ ~RuleHolds(3, RawOf(row), EffOf(row)))

-----------------------------------------------------------------------------
(* Claims about the entries get_local_if_map adds.                         *)

\* the positions of the hardware-address marker among the tokens of a line
MarkerAt(line) ==
    LET tokens == SplitWs(line) IN
    { i \in 1..Len(tokens) : Lower(tokens[i]) = S_link_ether }

\* the text of a token before its first "/"
BeforeSlash(tok) ==
    IF HasChar(tok, "/") THEN SubSeq(tok, 1, Find(tok, "/") - 1) ELSE tok

\* the logical lines with both a name and a MAC
Defining(full_lines) ==
    { i \in 1..Len(full_lines) :
        IfName(full_lines[i]) # <<>> /\ IfMac(full_lines[i]) # <<>> }

\* C22: an entry is added for a logical line only when both a non-empty
\* name and a non-empty MAC were determined on that same line: a line with
\* a name but no marker, or a marker but no name, adds nothing, and the name
\* or state of one line is never combined with the MAC of another
C22_NameAndMacOfOneLine ==
    pc = "done" /\ ip_out.ok =>
        LET full_lines == FullLines(ip_out.text) IN
        /\ \A m \in DOMAIN if_map.mapping :
              /\ m # <<>> /\ if_map.mapping[m].ifname # <<>>
              /\ \E i \in 1..Len(full_lines) :
                    /\ MarkerAt(full_lines[i]) # {}
                    /\ IfMac(full_lines[i]) = m
                    /\ IfName(full_lines[i]) = if_map.mapping[m].ifname
                    /\ IfState(full_lines[i]) = if_map.mapping[m].state
        /\ Cardinality(DOMAIN if_map.mapping) <= Cardinality(Defining(full_lines))
        /\ (\A i \in 1..Len(full_lines) :
               IfName(full_lines[i]) = <<>> \/ MarkerAt(full_lines[i]) = {})
             => if_map.mapping = <<>>

\* C22 witness: a first logical line with a name and no marker, a second
\* with a MAC and no name: nothing was added
C22_Witness ==
    /\ pc = "done" /\ ip_out.ok
    /\ LET full_lines == FullLines(ip_out.text) IN
       /\ Len(full_lines) = 2
       /\ IfName(full_lines[1]) # <<>> /\ MarkerAt(full_lines[1]) = {}
       /\ IfName(full_lines[2]) = <<>> /\ IfMac(full_lines[2]) # <<>>
    /\ if_map.mapping = <<>>

\* C23: the key of an entry is the token right after the marker token, cut
\* at its first "/" and in lower case; a marker that is the last token of
\* its line yields no MAC
C23_KeyFollowsMarker ==
    pc = "done" /\ ip_out.ok =>
        LET full_lines == FullLines(ip_out.text) IN
        /\ \A m \in DOMAIN if_map.mapping :
              \E i \in 1..Len(full_lines) :
                 LET tokens == SplitWs(full_lines[i]) IN
                 \E t \in MarkerAt(full_lines[i]) :
                    /\ t < Len(tokens)
                    /\ m = Lower(BeforeSlash(tokens[t + 1]))
                    /\ ~HasChar(m, "/")
        /\ (\A i \in 1..Len(full_lines) :
               MarkerAt(full_lines[i]) \subseteq {Len(SplitWs(full_lines[i]))})
             => if_map.mapping = <<>>

\* C23 witness: an upper-case address with a "/64" suffix was entered under
\* its lower-case text before the "/"
C23_Witness ==
    /\ pc = "done" /\ ip_out.ok
    /\ LET full_lines == FullLines(ip_out.text) IN
       /\ Len(full_lines) = 1
       /\ Contains(full_lines[1], <<"0", "F", "/", "6", "4">>)
    /\ DOMAIN if_map.mapping =
           {<<"a", "a", ":", "b", "b", ":", "c", "c", ":", "d", "d", ":", "e", "e", ":", "0", "f">>}

\* a name-bearing line whose marker is its last token added nothing
C23_MarkerLast ==
    /\ pc = "done" /\ ip_out.ok
    /\ LET full_lines == FullLines(ip_out.text) IN
       /\ Len(full_lines) = 1
       /\ IfName(full_lines[1]) # <<>>
       /\ MarkerAt(full_lines[1]) = {Len(SplitWs(full_lines[1]))}
    /\ if_map.mapping = <<>>

\* the last logical line that defines an entry for MAC m
LastFor(full_lines, m) ==
    CHOOSE i \in LinesFor(full_lines, m) :
        \A j \in LinesFor(full_lines, m) : j <= i

\* C30: when several entries of the listing carry the same MAC the mapping
\* holds one entry for it, with the name and state of the last of them in
\* listing order, and the mapping has as many entries as distinct MAC keys
\* were found
C30_LastOfSameMacWins ==
    pc = "done" /\ ip_out.ok =>
        LET full_lines == FullLines(ip_out.text)
            keys == { IfMac(full_lines[i]) : i \in Defining(full_lines) }
        IN  /\ DOMAIN if_map.mapping = keys
            /\ Cardinality(DOMAIN if_map.mapping) = Cardinality(keys)
            /\ \A m \in keys :
                  LET i == LastFor(full_lines, m) IN
                  if_map.mapping[m] =
                      [ifname |-> IfName(full_lines[i]),
                       state  |-> IfState(full_lines[i])]

\* C30 witness: eth0 (UP) and then eth1 (DOWN) carry the same MAC: the one
\* entry is eth1's
C30_Witness ==
    /\ pc = "done" /\ ip_out.ok
    /\ LET full_lines == FullLines(ip_out.text) IN
       /\ Len(full_lines) = 2
       /\ Defining(full_lines) = {1, 2}
       /\ IfMac(full_lines[1]) = IfMac(full_lines[2])
       /\ IfName(full_lines[1]) = <<"e", "t", "h", "0">>
       /\ IfState(full_lines[1]) = S_UP
    /\ Cardinality(DOMAIN if_map.mapping) = 1
    /\ \A m \in DOMAIN if_map.mapping :
          if_map.mapping[m] = [ifname |-> <<"e", "t", "h", "1">>, state |-> S_DOWN]

-----------------------------------------------------------------------------
(* Claims about the logical lines of the listing.                          *)

\* the physical line ends in the continuation marker
Continued(pline) ==
    LET l == RStrip(pline) IN l # <<>> /\ l[Len(l)] = "\\"

\* the content of a physical line: its text without the continuation marker
\* and the surrounding blanks
Content(pline) ==
    LET l == RStrip(pline) IN
    Strip(IF Continued(pline) THEN SubSeq(l, 1, Len(l) - 1) ELSE l)

NonBlanks(s) == Cardinality({ i \in 1..Len(s) : ~IsSpace(s[i]) })

RECURSIVE SumNonBlanks(_)
SumNonBlanks(ls) ==
    IF ls = <<>> THEN 0 ELSE NonBlanks(Head(ls)) + SumNonBlanks(Tail(ls))

\* C24: physical lines ending in the continuation marker are joined with
\* the following physical line into one logical line, and the content of
\* every non-blank physical line, a last line ending in the marker
\* included, belongs to exactly one logical line
C24_EveryLineInOneLogicalLine ==
    pc = "done" /\ ip_out.ok =>
        LET phys == splitlines(ip_out.text)
            full_lines == FullLines(ip_out.text)
        IN  /\ \A p \in 1..Len(phys) :
                  Content(phys[p]) # <<>> =>
                      \E i \in 1..Len(full_lines) :
                          Contains(full_lines[i], Content(phys[p]))
            /\ \A p \in 1..(Len(phys) - 1) :
                  Continued(phys[p]) =>
                      \E i \in 1..Len(full_lines) :
                          /\ Contains(full_lines[i], Content(phys[p]))
                          /\ Contains(full_lines[i], Content(phys[p + 1]))
            /\ SumNonBlanks(full_lines) =
                   SumNonBlanks([p \in 1..Len(phys) |-> Content(phys[p])])

\* what holds of the joining: every physical line that is followed, at some
\* distance, by a line without the marker is in one logical line together
\* with its continuation, and the lines of a listing's last run of
\* marker-ended lines are in none
C24_JoinedUnlessTrailing ==
    pc = "done" /\ ip_out.ok =>
        LET phys == splitlines(ip_out.text)
            full_lines == FullLines(ip_out.text)
            trailing == { p \in 1..Len(phys) :
                            \A q \in p..Len(phys) : Continued(phys[q]) }
        IN  /\ \A p \in (1..Len(phys)) \ trailing :
                  /\ Content(phys[p]) # <<>> =>
                        \E i \in 1..Len(full_lines) :
                            Contains(full_lines[i], Content(phys[p]))
                  /\ Continued(phys[p]) =>
                        \E i \in 1..Len(full_lines) :
                            /\ Contains(full_lines[i], Content(phys[p]))
                            /\ Contains(full_lines[i], Content(phys[p + 1]))
            /\ SumNonBlanks(full_lines) =
                   SumNonBlanks([p \in 1..Len(phys) |->
                       IF p \in trailing THEN <<>> ELSE Content(phys[p])])

\* a name on one physical line and the MAC on its continuation gave one
\* entry
C24_Joined ==
    /\ pc = "done" /\ ip_out.ok
    /\ LET phys == splitlines(ip_out.text) IN
       /\ Len(phys) = 2 /\ Continued(phys[1])
       /\ MarkerAt(phys[1]) = {} /\ MarkerAt(phys[2]) # {}
    /\ Cardinality(DOMAIN if_map.mapping) = 1

\* the listing ends with a line that ends in the marker
C24_TrailingMarker ==
    /\ pc = "done" /\ ip_out.ok
    /\ LET phys == splitlines(ip_out.text) IN
       /\ Len(phys) = 2 /\ Continued(phys[2])
       /\ Len(FullLines(ip_out.text)) = 1

\* the logical line begins with a numeric index followed by a colon
BeginsWithIndex(line) ==
    \E n \in 1..(Len(line) - 1) :
        AllDigits(SubSeq(line, 1, n)) /\ line[n + 1] = ":"

\* the trimmed text between the first colon of a line and its second colon,
\* or its end where there is no second colon
BetweenColons(line) ==
    LET rest == SubSeq(line, Find(line, ":") + 1, Len(line))
        b    == Find(rest, ":")
    IN  Strip(IF b = 0 THEN rest ELSE SubSeq(rest, 1, b - 1))

\* C25: a logical line yields an interface name only if it begins with a
\* numeric index followed by a colon, the name being the trimmed text
\* between its first and its second colon; a line that does not begin so
\* never produces a mapping entry
C25_NameNeedsIndex ==
    pc = "done" /\ ip_out.ok =>
        LET full_lines == FullLines(ip_out.text) IN
        /\ \A i \in 1..Len(full_lines) :
              IfName(full_lines[i]) # <<>> =>
                  /\ BeginsWithIndex(full_lines[i])
                  /\ IfName(full_lines[i]) = BetweenColons(full_lines[i])
        /\ \A m \in DOMAIN if_map.mapping :
              \E i \in LinesFor(full_lines, m) : BeginsWithIndex(full_lines[i])

\* what holds of the name: a line yields one only if it begins with a digit
\* and holds a colon anywhere, and the name is then the trimmed text
\* between its first and its second colon
C25_DigitAndColon ==
    pc = "done" /\ ip_out.ok =>
        LET full_lines == FullLines(ip_out.text) IN
        \A i \in 1..Len(full_lines) :
            IfName(full_lines[i]) # <<>> =>
                /\ full_lines[i][1] \in Digits /\ HasChar(full_lines[i], ":")
                /\ IfName(full_lines[i]) = BetweenColons(full_lines[i])

\* a line that begins "6x eth3:" was given a name and an entry
C25_DigitWithoutIndex ==
    /\ pc = "done" /\ ip_out.ok
    /\ LET full_lines == FullLines(ip_out.text) IN
       \E i \in 1..Len(full_lines) :
          /\ ~BeginsWithIndex(full_lines[i])
          /\ IfMac(full_lines[i]) \in DOMAIN if_map.mapping
          /\ if_map.mapping[IfMac(full_lines[i])].ifname = IfName(full_lines[i])

-----------------------------------------------------------------------------
(* Claims about the agreement of the report's lines.                       *)

\* C27: within one report the two histogram outputs agree for every
\* record, records whose bins parse to negative integers included: the
\* summary line is the no-data message if and only if the breakdown prints
\* "All bins are zero" instead of the 16 bin lines
C27_HistogramOutputsAgree ==
    (pc = "done" /\ HasLine(report, "FEC Histogram summary")
                 /\ HasLine(report, "[Detailed FEC Histogram (all 16 bins)]")) =>
        /\ LineOf(report, "FEC Histogram summary").text = S_NoHist
              <=> HasLine(report, "All bins are zero (no FEC corrections)")
        /\ LineOf(report, "FEC Histogram summary").text = S_NoHist
              <=> BinLines(report) = <<>>

\* what holds of the two outputs: they disagree exactly when the total of
\* the bins is below zero and a bin is above zero, where the summary is a
\* digest and the breakdown the all-zero line
C27_DisagreeBelowZero ==
    (pc = "done" /\ HasLine(report, "FEC Histogram summary")
                 /\ HasLine(report, "[Detailed FEC Histogram (all 16 bins)]")) =>
        LET bins == BinsOf(row)
            hist_summary == LineOf(report, "FEC Histogram summary").text
        IN  IF Sum(bins) < 0 /\ \E i \in 1..16 : bins[i] > 0
            THEN /\ hist_summary = HistDigest(bins, Sum(bins),
                                  Max({ i \in 0..15 : bins[i + 1] > 0 }))
                 /\ HasLine(report, "All bins are zero (no FEC corrections)")
            ELSE hist_summary = S_NoHist
                    <=> HasLine(report, "All bins are zero (no FEC corrections)")

\* a report of the bins -5 and 3: a digest of the total -2 above the
\* all-zero line
C27_NegativeTotal ==
    /\ pc = "done"
    /\ IsText(row, "hist0", <<"-", "5">>) /\ IsText(row, "hist1", <<"3">>)
    /\ Sum(BinsOf(row)) = 0 - 2
    /\ HasLine(report, "All bins are zero (no FEC corrections)")
    /\ StartsWith(LineOf(report, "FEC Histogram summary").text,
                  <<"T", "o", "t", "a", "l", " ", "c", "o", "r", "r", "e", "c", "t", "i", "o", "n", "s", ":", " ", "-", "2">>)

\* C28: for every record the statistics section never contains the
\* "Non-negligible effective BER detected" warning: the effective-BER
\* analysis block is entered only when the effective BER is below 1e-200,
\* so a record with an effective BER above 1e-12 has no effective-BER
\* analysis line at all
C28_NoEffectiveBerWarning ==
    pc = "done" =>
        /\ ~HasLine(report, "WARNING: Non-negligible effective BER detected")
        /\ HasLine(report, "Effective BER Analysis") =>
              /\ EffOf(row) # FNone /\ LtPow10(EffOf(row), -200)
              /\ HasLine(report, "Effective BER is excellent")
        /\ (EffOf(row) # FNone /\ GtPow10(EffOf(row), -12)) =>
              /\ classify_link_health(row) = V_Marginal
              /\ ~HasLine(report, "Effective BER Analysis")
              /\ ~HasLine(report, "Effective BER is excellent")

\* C28 witness: the report of a record with the effective BER 1e-7 came to
\* its last section and has the raw-BER analysis but none of the effective
\* BER
C28_Witness ==
    /\ pc = "done" /\ report.raised = ""
    /\ IsText(row, "Effective_BER", <<"1", "e", "-", "7">>)
    /\ classify_link_health(row) = V_Marginal
    /\ HasLine(report, "Raw BER Analysis")
    /\ ~HasLine(report, "Effective BER Analysis")

\* a report with the analysis of an effective BER below 1e-200
C28_Entered ==
    /\ pc = "done" /\ report.raised = ""
    /\ IsText(row, "Effective_BER", <<"1", "e", "-", "2", "1", "0">>)
    /\ HasLine(report, "Effective BER Analysis")
    /\ HasLine(report, "Effective BER is excellent")

-----------------------------------------------------------------------------
(* Claims about the lists of the final summary.                            *)

\* the paths the summary lists under the tag
ListedAs(tag) ==
    { summary[k].n : k \in { j \in 1..Len(summary) : summary[j].tag = tag } }

\* the number of lines of the summary that list the i-th path
TimesListed(i) ==
    Cardinality({ k \in 1..Len(summary) :
                     summary[k].tag \in {"file", "template", "error"}
                     /\ summary[k].n = i })

\* C29: in the final summary a path is listed under "Processed ... file(s)
\* with data" only if it is a readable regular file for which a row report
\* was generated; a directory or a file whose reading fails is never listed
\* as processed; and every path is in at most one of the lists processed,
\* templates and errors
C29_ProcessedOnlyWithReports ==
    pc = "done" =>
        /\ \A i \in ListedAs("file") :
              /\ paths[i].kind = "data"
              /\ \E k \in 1..Len(calls) : calls[k].path = i /\ calls[k].raised = ""
        /\ \A i \in 1..Len(paths) :
              paths[i].kind \in {"dir", "unreadable"} => i \notin ListedAs("file")
        /\ \A i \in 1..Len(paths) : TimesListed(i) <= 1

\* what holds of the lists: every path is in at most one of them; a path
\* listed as processed is a file all of whose records were reported, or a
\* directory or an unreadable file, listed with 0 rows
C29_OneListEach ==
    pc = "done" =>
        /\ \A i \in 1..Len(paths) : TimesListed(i) <= 1
        /\ \A i \in ListedAs("file") :
              \/ /\ paths[i].kind = "data"
                 /\ Len(RowsCalled(i)) = Len(paths[i].rows)
                 /\ \A k \in 1..Len(calls) : calls[k].path = i => calls[k].raised = ""
              \/ /\ paths[i].kind \in {"dir", "unreadable"}
                 /\ \E k \in 1..Len(processed_files) :
                       processed_files[k] = [path |-> i, rows |-> 0]
        /\ \A i \in 1..Len(paths) :
              paths[i].kind \in {"dir", "unreadable"} => i \in ListedAs("file")

\* a run over a directory and a file with records listed both as processed
C29_DirectoryListed ==
    /\ pc = "done"
    /\ Len(paths) = 2
    /\ paths[1].kind = "dir" /\ paths[2].kind = "data"
    /\ ListedAs("file") = {1, 2}
    /\ \E k \in 1..Len(log) :
          log[k] = [path |-> 1, msg |-> "[ERROR] is a directory, not a file"]

====
